---- MODULE Spec2Model ----
(***************************************************************************)
(* The browser client of the nutrition advisor: the dashboard page         *)
(* (dashboard script), the home page with the auth forms (home-script.js)  *)
(* and the users page (script.js).  Every event handler is one action; a   *)
(* handler that awaits a fetch is split at the await: the part up to the   *)
(* fetch puts a call into `inflight`, the part after it is the response    *)
(* action of that call.  Responses are delivered in any order.             *)
(***************************************************************************)
EXTENDS Integers, Sequences, FiniteSets, TLC

VARIABLES
  location,        \* the href most recently assigned to window.location
  storage,         \* localStorage: key -> value, None when the key is absent
  configDefined,   \* whether the page defines CONFIG (typeof CONFIG !== 'undefined')
  token,           \* dashboard: the const `token` read when the script loads
  loaded,          \* whether DOMContentLoaded has been handled
  inflight,        \* fetch calls awaiting their response, in the order issued
  joins,           \* loadMealStatsWithGoals: the Promise.all of each running invocation
  timers,          \* pending setTimeout timers
  alerts,          \* the alert() texts shown so far
  opsLeft,         \* user operations still explored (NoLimit: no cap)
  welcomeText,     \* #welcomeText
  statsView,       \* the four statistics counters
  mealsView,       \* #recentMeals: the meals rendered
  analysisModal,   \* #analysisModal style.display
  analysisView,    \* the analysis totals and recommendations rendered
  macrosChart,     \* let macrosChart: 0 is null, else the chart instance referred to
  caloriesChart,   \* let caloriesChart: 0 is null, else the chart instance referred to
  charts,          \* every Chart instance constructed so far, by instance number
  addMealModal,    \* #addMealModal style.display
  mealForm,        \* the mealType and quantity fields of #addMealForm
  foodSearch,      \* #foodSearch value, a sequence of characters
  searchTimeout,   \* let searchTimeout: 0 is undefined, else a timer id
  suggestions,     \* #foodSuggestions
  selectedFoodId,  \* hidden input #selectedFoodId
  selectedFoodName,\* hidden input #selectedFoodName
  selectedFood,    \* let selectedFood
  preview,         \* #nutritionPreview and its four fields
  mealMessage,     \* #mealMessage
  hostname,        \* window.location.hostname of the page
  page,            \* the page whose script is running: home, dashboard or users
  authModal,       \* home: #authModal style.display and the section it shows
  registerForm,    \* home: the fields of #registerForm
  loginForm,       \* home: the fields of #loginForm
  registerMessage, \* home: #registerMessage
  loginMessage,    \* home: #loginMessage
  profileModal,    \* #profileModal style.display
  profileForm,     \* the fields of #personalInfoForm and #goalsForm
  profileMessage,  \* #profileMessage
  calculatedGoals, \* #calculatedGoals and its four values
  analyzeBtn,      \* per analytics panel: its analyze button
  refreshBtn,      \* per analytics panel: style.display of its refresh button
  aiResults,       \* per analytics panel: its results container
  usersBtn,        \* users page: #loadUsersBtn
  usersList,       \* users page: #usersList
  usersLoginMessage, \* users page: #loginMessage
  apiUrl           \* the endpoint and the result of the last CONFIG.getApiUrl call

coreVars == <<location, storage, configDefined, token, loaded, inflight, joins, timers,
              alerts, opsLeft>>
mealVars == <<welcomeText, statsView, mealsView>>
chartVars == <<analysisModal, analysisView, macrosChart, caloriesChart, charts>>
foodVars == <<addMealModal, mealForm, foodSearch, searchTimeout, suggestions,
              selectedFoodId, selectedFoodName, selectedFood, preview, mealMessage>>
envVars == <<hostname, page, apiUrl>>
homeVars == <<authModal, registerForm, loginForm, registerMessage, loginMessage>>
profileVars == <<profileModal, profileForm, profileMessage, calculatedGoals>>
aiVars == <<analyzeBtn, refreshBtn, aiResults>>
usersVars == <<usersBtn, usersList, usersLoginMessage>>
vars == <<coreVars, mealVars, chartVars, foodVars, envVars, homeVars, profileVars, aiVars,
          usersVars>>

\* the variables outside the core and outside one panel
offDashboard == <<envVars, homeVars, usersVars>>
exMeal == <<chartVars, foodVars, profileVars, aiVars, offDashboard>>
exChart == <<mealVars, foodVars, profileVars, aiVars, offDashboard>>
exFood == <<chartVars, profileVars, aiVars, offDashboard>>
dashboardVars == <<mealVars, chartVars, foodVars, profileVars, aiVars>>

None == "none"
\* before CONFIG.getApiUrl was called
NoApiUrl == [endpoint |-> <<>>, url |-> <<>>]

(* ------------------------------ bounds -------------------------------- *)
MaxInflight == 3
MaxTimers == 2
MaxOps == 3
MaxFoodOps == 6
MaxHomeOps == 4
MaxCharts == 4
MaxEndpointLen == 5
NoLimit == MaxOps + MaxFoodOps + MaxHomeOps + 1

(* --------------------------- program constants ------------------------ *)
JWT_TOKEN == "nutrition_advisor_token"
USER_PREFERENCES == "nutrition_advisor_prefs"
LegacyTokenKey == "token"
LegacyPrefsKey == "user_prefs"
StorageKeys == {JWT_TOKEN, USER_PREFERENCES, LegacyTokenKey, LegacyPrefsKey}

TOKEN_KEY == IF configDefined THEN JWT_TOKEN ELSE LegacyTokenKey
PREFS_KEY == IF configDefined THEN USER_PREFERENCES ELSE LegacyPrefsKey

DebounceMs == 500
CloseModalMs == 2000
HideMessageMs == 5000
ShowLoginMs == 2000
RedirectMs == 1500
LoggedInRedirectMs == 1000
MinPasswordLength == 6
TickMs == DebounceMs

(* ------------------------------ inputs -------------------------------- *)
\* what a fetch can end in: 2xx, a non-2xx other than 401, 401, or a thrown exception
Outcomes == {"ok", "fail", "unauth", "neterr"}
Meals == {"m1", "m2"}
MealLists == {<<>>, <<"m1">>, <<"m1", "m2">>}
StatsResults == {[total_calories |-> 0, goal_progress |-> 0],
                 [total_calories |-> 1500, goal_progress |-> 60],
                 [total_calories |-> 1510, goal_progress |-> 50],
                 [total_calories |-> 2600, goal_progress |-> 100]}
ProfileResults == {[dailyCalories |-> 0], [dailyCalories |-> 2000]}
Periods == {"week", "month"}
\* /meals/analysis results: daily_data maps a day (the DD of a date YYYY-MM-DD) to
\* its calories
NoAnalysis == [total_calories |-> 0, avg_calories |-> 0, total_meals |-> 0,
               recommendations |-> <<>>, total_protein |-> 0, total_carbs |-> 0,
               total_fat |-> 0, daily_data |-> <<>>]
AnalysisResults ==
  {NoAnalysis,
   [total_calories |-> 1900, avg_calories |-> 950, total_meals |-> 4,
    recommendations |-> <<"eat more protein">>, total_protein |-> 60,
    total_carbs |-> 250, total_fat |-> 70,
    daily_data |-> <<[date |-> 12, calories |-> 900], [date |-> 11, calories |-> 1000]>>],
   \* meals without macro-nutrients
   [total_calories |-> 800, avg_calories |-> 800, total_meals |-> 1,
    recommendations |-> <<>>, total_protein |-> 0, total_carbs |-> 0, total_fat |-> 0,
    daily_data |-> <<[date |-> 12, calories |-> 800]>>],
   \* macro-nutrients, no day
   [total_calories |-> 0, avg_calories |-> 0, total_meals |-> 0,
    recommendations |-> <<>>, total_protein |-> 10, total_carbs |-> 0, total_fat |-> 0,
    daily_data |-> <<>>]}

(* ----------------------------- helpers -------------------------------- *)
Range(s) == {s[i] : i \in DOMAIN s}
RemoveAt(s, i) == [j \in 1..(Len(s) - 1) |-> IF j < i THEN s[j] ELSE s[j + 1]]
Min(S) == CHOOSE x \in S : \A y \in S : x <= y

\* Math.round of the non-negative rational n / d
RoundDiv(n, d) == (2 * n + d) \div (2 * d)

\* a number of a request body: absent, or a value in tenths
Absent == [set |-> FALSE, tenths |-> 0]
Num(tenths) == [set |-> TRUE, tenths |-> tenths]
NoBody == [mealType |-> "", quantity |-> "", foodName |-> <<>>, food_id |-> <<>>,
           calories |-> Absent, protein |-> Absent, carbs |-> Absent, fat |-> Absent]

\* a fetch in flight: the call site, the variable part of the URL, the JSON body, the
\* token sent, the operation it runs for, and the Promise.all it belongs to (0: none)
CallWith(site, arg, body, by, grp) ==
  [site |-> site, arg |-> arg, body |-> body, tok |-> token, by |-> by, grp |-> grp]
Call(site, arg, by, grp) == CallWith(site, arg, NoBody, by, grp)

CallsOf(s, site) == {i \in DOMAIN s : s[i].site = site}

(* ------------------------- text and numbers --------------------------- *)
Space == " "
Digits == <<"0", "1", "2", "3", "4", "5", "6", "7", "8", "9">>
IsDigit(c) == \E k \in DOMAIN Digits : Digits[k] = c
DigitValue(c) == (CHOOSE k \in DOMAIN Digits : Digits[k] = c) - 1

\* String.prototype.trim
RECURSIVE TrimLeft(_)
TrimLeft(t) == IF t # <<>> /\ Head(t) = Space THEN TrimLeft(Tail(t)) ELSE t
RECURSIVE TrimRight(_)
TrimRight(t) == IF t # <<>> /\ t[Len(t)] = Space THEN TrimRight(SubSeq(t, 1, Len(t) - 1))
                ELSE t
Trim(t) == TrimRight(TrimLeft(t))

\* the value of the leading digits of t, and how many they are
RECURSIVE LeadingDigits(_, _, _)
LeadingDigits(t, acc, n) ==
  IF t # <<>> /\ IsDigit(Head(t))
  THEN LeadingDigits(Tail(t), 10 * acc + DigitValue(Head(t)), n + 1)
  ELSE [value |-> acc, count |-> n, rest |-> t]

\* a property that is missing from a JSON object
Undefined == <<"undefined">>
Truthy(t) == t # Undefined /\ t # <<>>

\* parseInt(x) || 0, in tenths
ParseIntOr0(x) ==
  IF x = Undefined THEN 0
  ELSE LET d == LeadingDigits(TrimLeft(x), 0, 0) IN 10 * d.value

\* parseFloat(x) || 0, in tenths, for texts with at most one decimal
ParseFloatOr0(x) ==
  IF x = Undefined THEN 0
  ELSE LET d == LeadingDigits(TrimLeft(x), 0, 0)
           frac == IF d.rest # <<>> /\ Head(d.rest) = "."
                   THEN LeadingDigits(Tail(d.rest), 0, 0)
                   ELSE [value |-> 0, count |-> 0, rest |-> d.rest]
       IN IF d.count = 0 /\ frac.count = 0 THEN 0
          ELSE 10 * d.value + (IF frac.count = 0 THEN 0 ELSE frac.value)

(* --------------------------- the food inputs --------------------------- *)
Apple == [food_id |-> <<"f1">>, food_name |-> <<"A", "p", "p", "l", "e">>]
Banana == [food_id |-> <<"f2">>, food_name |-> <<"B", "a", "n", "a", "n", "a">>]
QueryAp == <<"a", "p">>
QueryBa == <<"b", "a">>
\* what the box can hold after the user types: too short, too short once trimmed, two
\* queries, and a query with spaces around it
Typed == {<<>>, <<"a">>, <<Space, "b", Space>>, QueryAp, QueryBa, <<Space, "a", "p">>}
\* result.foods of /food/search for a query
Catalog(q) == IF q = QueryAp THEN <<Apple, Banana>>
              ELSE IF q = QueryBa THEN <<Banana>> ELSE <<>>

ServingA == [calories |-> <<"9", "5">>, protein |-> <<"0", ".", "5">>,
             carbohydrate |-> <<"2", "5">>, fat |-> <<"0", ".", "3">>]
ServingB == [calories |-> <<"2", "0", "0">>, protein |-> Undefined,
             carbohydrate |-> <<>>, fat |-> <<"0">>]
\* the shapes of a /food/details result: whether result.food and food.servings exist,
\* whether servings.serving is an array, and its entries (the object itself when it
\* is no array, nothing when servings.serving is missing)
Shape(hasFood, hasServings, isArray, serving) ==
  [hasFood |-> hasFood, hasServings |-> hasServings, isArray |-> isArray,
   serving |-> serving]
DetailShapes ==
  {Shape(FALSE, FALSE, FALSE, <<>>), Shape(TRUE, FALSE, FALSE, <<>>),
   Shape(TRUE, TRUE, FALSE, <<>>), Shape(TRUE, TRUE, TRUE, <<>>),
   Shape(TRUE, TRUE, FALSE, <<ServingA>>), Shape(TRUE, TRUE, FALSE, <<ServingB>>),
   Shape(TRUE, TRUE, TRUE, <<ServingA, ServingB>>),
   Shape(TRUE, TRUE, TRUE, <<ServingB, ServingA>>)}
\* a result without a food property
NoDetails == Shape(FALSE, FALSE, FALSE, <<>>)
Details(foodId, shape) ==
  [null |-> FALSE, food_id |-> foodId, hasFood |-> shape.hasFood,
   hasServings |-> shape.hasServings, isArray |-> shape.isArray,
   serving |-> shape.serving]
NullFood == [null |-> TRUE, food_id |-> <<>>, hasFood |-> FALSE, hasServings |-> FALSE,
             isArray |-> FALSE, serving |-> <<>>]

MealTypes == {"", "lunch"}
Quantities == {"", "1 cup"}
EmptyForm == [mealType |-> "", quantity |-> ""]

NoSuggestions == [kind |-> "empty", foods |-> <<>>]
NoFoodsFound == [kind |-> "none found", foods |-> <<>>]
Loading == <<"Loading...">>
ErrorText == <<"Error">>

(* ------------------ the dashboard: calls and timers ------------------- *)
\* a user operation on the page pg: one of the operations explored
Spend(pg) ==
  /\ page = pg
  /\ IF opsLeft = NoLimit THEN opsLeft' = opsLeft
     ELSE opsLeft > 0 /\ opsLeft' = opsLeft - 1

\* options.headers.Authorization is 'Bearer ' + token for every dashboard call
NoArg == <<>>
JoinIds == 1..MaxInflight
NoStats == [total_calories |-> 0, goal_progress |-> 0]
NoProfile == [dailyCalories |-> 0]
\* one side of the Promise.all: st is "pending", "ok" or "notok"
Slot(st, result) == [st |-> st, result |-> result]
IdleJoin == [active |-> FALSE, stats |-> Slot("pending", NoStats),
             profile |-> Slot("pending", NoProfile)]
NewJoin == [IdleJoin EXCEPT !.active = TRUE]
FreeJoin == {g \in JoinIds : ~joins[g].active}

SessionExpired == "Your session has expired. Please login again."
ErrorDeletingMeal == "Error deleting meal"

\* makeApiCall from the response on, were it to drop the token on every response that
\* is not ok
MakeApiCall_dropOnError(out, callerAlerts) ==
  /\ alerts' = alerts \cup (IF out = "unauth" THEN {SessionExpired} ELSE {})
                      \cup callerAlerts
  /\ storage' = IF out \in {"unauth", "fail"} THEN [storage EXCEPT ![TOKEN_KEY] = None]
                ELSE storage
  /\ location' = IF out = "unauth" THEN "index.html" ELSE location

\* makeApiCall from the response on: a 401 alerts, removes the token and leaves
\* for index.html; the caller then sees a response that is not ok
MakeApiCall(out, callerAlerts) ==
  /\ alerts' = alerts \cup (IF out = "unauth" THEN {SessionExpired} ELSE {})
                      \cup callerAlerts
  /\ storage' = IF out = "unauth" THEN [storage EXCEPT ![TOKEN_KEY] = None]
                ELSE storage
  /\ location' = IF out = "unauth" THEN "index.html" ELSE location

\* the two calls of loadMealStatsWithGoals and the call of loadTodaysMeals
StatsCalls(by, g) == <<Call("stats", NoArg, by, g), Call("profile", NoArg, by, g)>>
MealsCall(by) == <<Call("meals", NoArg, by, 0)>>
Refetch(by, g) == StatsCalls(by, g) \o MealsCall(by)
CanRefetch(rest) == Len(rest) + 3 <= MaxInflight /\ FreeJoin # {}

loadUserInfo ==
  welcomeText' = IF storage[PREFS_KEY] # None THEN "Welcome back, name!"
                 ELSE "Welcome back!"

DOMContentLoaded ==
  /\ page = "dashboard"
  /\ ~loaded
  /\ CanRefetch(inflight)
  /\ loaded' = TRUE
  /\ loadUserInfo
  /\ LET g == Min(FreeJoin) IN
       /\ inflight' = inflight \o Refetch("load", g)
       /\ joins' = [joins EXCEPT ![g] = NewJoin]
  /\ UNCHANGED <<location, storage, configDefined, token, timers, alerts, opsLeft,
                 statsView, mealsView, exMeal>>

\* the goal progress without its Math.min(..., 100)
GoalProgress_uncapped(stats, profile) ==
  IF profile.st = "ok" /\ profile.result.dailyCalories # 0
  THEN RoundDiv(stats.result.total_calories * 100, profile.result.dailyCalories)
  ELSE stats.result.goal_progress

\* the Promise.all continuation of loadMealStatsWithGoals
GoalProgress(stats, profile) ==
  IF profile.st = "ok" /\ profile.result.dailyCalories # 0
  THEN LET p == RoundDiv(stats.result.total_calories * 100, profile.result.dailyCalories)
       IN IF p < 100 THEN p ELSE 100
  ELSE stats.result.goal_progress

\* the rendering, were it to need the profile request to succeed as well
RenderStats_needingProfile(j) ==
  IF j.stats.st = "ok" /\ j.profile.st = "ok"
  THEN [shown |-> TRUE, stats |-> j.stats.result,
        goalProgress |-> GoalProgress(j.stats, j.profile)]
  ELSE statsView

RenderStats(j) ==
  IF j.stats.st = "ok"
  THEN [shown |-> TRUE, stats |-> j.stats.result,
        goalProgress |-> GoalProgress(j.stats, j.profile)]
  ELSE statsView

\* one of the two calls settles: record it, and run the continuation with the second
SettleJoin(g, side, slot) ==
  LET j == IF side = "stats" THEN [joins[g] EXCEPT !.stats = slot]
           ELSE [joins[g] EXCEPT !.profile = slot]
  IN IF j.stats.st # "pending" /\ j.profile.st # "pending"
     THEN /\ joins' = [joins EXCEPT ![g] = IdleJoin]
          /\ statsView' = RenderStats(j)
     ELSE /\ joins' = [joins EXCEPT ![g] = j]
          /\ statsView' = statsView

StatsResponse(i, out, data) ==
  /\ i \in DOMAIN inflight /\ inflight[i].site = "stats"
  /\ out = "ok" \/ data = NoStats
  /\ inflight' = RemoveAt(inflight, i)
  /\ MakeApiCall(out, {})
  /\ SettleJoin(inflight[i].grp, "stats", Slot(IF out = "ok" THEN "ok" ELSE "notok", data))
  /\ UNCHANGED <<configDefined, token, loaded, timers, opsLeft, welcomeText, mealsView,
                 exMeal>>

ProfileResponse(i, out, data) ==
  /\ i \in DOMAIN inflight /\ inflight[i].site = "profile"
  /\ out = "ok" \/ data = NoProfile
  /\ inflight' = RemoveAt(inflight, i)
  /\ MakeApiCall(out, {})
  /\ SettleJoin(inflight[i].grp, "profile", Slot(IF out = "ok" THEN "ok" ELSE "notok", data))
  /\ UNCHANGED <<configDefined, token, loaded, timers, opsLeft, welcomeText, mealsView,
                 exMeal>>

\* loadTodaysMeals after the await: displayMeals on a 2xx, nothing otherwise
MealsResponse(i, out, data) ==
  /\ i \in DOMAIN inflight /\ inflight[i].site = "meals"
  /\ out = "ok" \/ data = <<>>
  /\ inflight' = RemoveAt(inflight, i)
  /\ MakeApiCall(out, {})
  /\ mealsView' = IF out = "ok" THEN [shown |-> TRUE, meals |-> data] ELSE mealsView
  /\ UNCHANGED <<configDefined, token, loaded, joins, timers, opsLeft, welcomeText,
                 statsView, exMeal>>

\* deleteMeal without the early return on a declined confirm()
deleteMeal_ignoringConfirm(mealId, confirmed) ==
  /\ mealId \in Range(mealsView.meals)
  /\ Spend("dashboard")
  /\ Len(inflight) < MaxInflight
  /\ inflight' = Append(inflight, Call("deleteMeal", <<mealId>>, "deleteMeal", 0))
  /\ UNCHANGED <<location, storage, configDefined, token, loaded, joins, timers, alerts,
                 mealVars, exMeal>>

\* deleteMeal up to the await: confirm(), then the DELETE
deleteMeal(mealId, confirmed) ==
  /\ mealId \in Range(mealsView.meals)
  /\ Spend("dashboard")
  /\ confirmed => Len(inflight) < MaxInflight
  /\ inflight' = IF confirmed
                 THEN Append(inflight, Call("deleteMeal", <<mealId>>, "deleteMeal", 0))
                 ELSE inflight
  /\ UNCHANGED <<location, storage, configDefined, token, loaded, joins, timers, alerts,
                 mealVars, exMeal>>

\* deleteMeal after the await, were it to send the DELETE again when it was not
\* answered 2xx
DeleteMealResponse_retrying(i, out) ==
  /\ i \in DOMAIN inflight /\ inflight[i].site = "deleteMeal"
  /\ LET rest == RemoveAt(inflight, i) IN
       IF out = "ok"
       THEN /\ CanRefetch(rest)
            /\ LET g == Min(FreeJoin) IN
                 /\ inflight' = rest \o Refetch("deleteMeal", g)
                 /\ joins' = [joins EXCEPT ![g] = NewJoin]
            /\ MakeApiCall(out, {})
       ELSE /\ inflight' = Append(rest, inflight[i])
            /\ joins' = joins
            /\ MakeApiCall(out, {ErrorDeletingMeal})
  /\ UNCHANGED <<configDefined, token, loaded, timers, opsLeft, mealVars, exMeal>>

\* deleteMeal after the await
DeleteMealResponse(i, out) ==
  /\ i \in DOMAIN inflight /\ inflight[i].site = "deleteMeal"
  /\ LET rest == RemoveAt(inflight, i) IN
       IF out = "ok"
       THEN /\ CanRefetch(rest)
            /\ LET g == Min(FreeJoin) IN
                 /\ inflight' = rest \o Refetch("deleteMeal", g)
                 /\ joins' = [joins EXCEPT ![g] = NewJoin]
            /\ MakeApiCall(out, {})
       ELSE /\ inflight' = rest
            /\ joins' = joins
            /\ MakeApiCall(out, {ErrorDeletingMeal})
  /\ UNCHANGED <<configDefined, token, loaded, timers, opsLeft, mealVars, exMeal>>

(* --------------------------- initial states --------------------------- *)
NoMessage == [class |-> "", text |-> ""]
EmptyProfile == [fullName |-> "", age |-> <<>>, gender |-> "", height |-> <<>>,
                 weight |-> <<>>, activityLevel |-> "", primaryGoal |-> "",
                 weeklyGoal |-> <<"0">>]
NoGoals == [dailyCalories |-> 0, dailyProtein |-> 0, dailyCarbs |-> 0, dailyFat |-> 0]
NoProfileMessage == [class |-> "", text |-> "", fields |-> <<>>]
\* the profile modal as the dashboard's markup has it
ProfileMarkup ==
  /\ profileModal = "none"
  /\ profileForm = EmptyProfile
  /\ profileMessage = NoProfileMessage
  /\ calculatedGoals = [display |-> "none", goals |-> NoGoals]

\* the analytics panels: diet classification, intake forecast, cluster analysis
Panels == {"diet", "lstm", "cluster"}
AnalyticsMarkup ==
  /\ analyzeBtn = [p \in Panels |-> [disabled |-> FALSE, html |-> "label",
                                     display |-> "shown"]]
  /\ refreshBtn = [p \in Panels |-> "none"]
  /\ aiResults = [p \in Panels |-> [display |-> "none", content |-> "empty"]]

\* the users page as its markup has it
UsersMarkup ==
  /\ usersBtn = [text |-> "Load Users", disabled |-> FALSE]
  /\ usersList = [kind |-> "empty", users |-> <<>>]
  /\ usersLoginMessage = NoMessage

EmptyRegister == [name |-> "", email |-> "", password |-> <<>>]
EmptyLogin == [email |-> "", password |-> <<>>]
\* the auth modal and its forms as the home page's markup has them
HomeMarkup ==
  /\ authModal = [display |-> "none", section |-> "none"]
  /\ registerForm = EmptyRegister
  /\ loginForm = EmptyLogin
  /\ registerMessage = NoMessage
  /\ loginMessage = NoMessage

\* the dashboard script has run its top level: the token is read, and a missing
\* token sends the page to home.html
InitCore(sto, cfg, budget) ==
  /\ storage = sto
  /\ configDefined = cfg
  /\ token = sto[IF cfg THEN JWT_TOKEN ELSE LegacyTokenKey]
  /\ location = IF sto[IF cfg THEN JWT_TOKEN ELSE LegacyTokenKey] = None
                THEN "home.html" ELSE "dashboard.html"
  /\ inflight = <<>>
  /\ joins = [g \in JoinIds |-> IdleJoin]
  /\ timers = {}
  /\ alerts = {}
  /\ opsLeft = budget
  /\ hostname = "localhost"
  /\ page = "dashboard"
  /\ apiUrl = NoApiUrl

\* the modals and panels as the page's markup has them
InitPanels ==
  /\ analysisModal = "none"
  /\ analysisView = [shown |-> FALSE, data |-> NoAnalysis]
  /\ macrosChart = 0
  /\ caloriesChart = 0
  /\ charts = <<>>
  /\ addMealModal = "none"
  /\ mealForm = EmptyForm
  /\ foodSearch = <<>>
  /\ searchTimeout = 0
  /\ suggestions = NoSuggestions
  /\ selectedFoodId = <<>>
  /\ selectedFoodName = <<>>
  /\ selectedFood = NullFood
  /\ preview = [display |-> "none", calories |-> <<>>, protein |-> <<>>, carbs |-> <<>>,
                fat |-> <<>>]
  /\ mealMessage = NoMessage
  /\ ProfileMarkup
  /\ AnalyticsMarkup
  /\ HomeMarkup
  /\ UsersMarkup

InitDashboard(sto, cfg, budget) ==
  /\ InitCore(sto, cfg, budget)
  /\ InitPanels
  /\ loaded = FALSE
  /\ welcomeText = None
  /\ statsView = [shown |-> FALSE, stats |-> NoStats, goalProgress |-> 0]
  /\ mealsView = [shown |-> FALSE, meals |-> <<>>]

\* local storage as a successful login on the home page leaves it
LoggedIn == [k \in StorageKeys |->
               IF k = JWT_TOKEN THEN "jwt" ELSE IF k = USER_PREFERENCES THEN "prefs"
               ELSE None]

\* the dashboard of a logged-in user once DOMContentLoaded is handled and its three
\* calls are answered 2xx (statistics without a calorie goal, one meal today)
InitLoaded(budget) ==
  /\ InitCore(LoggedIn, TRUE, budget)
  /\ InitPanels
  /\ loaded = TRUE
  /\ welcomeText = "Welcome back, name!"
  /\ statsView = [shown |-> TRUE, stats |-> [total_calories |-> 1500, goal_progress |-> 60],
                  goalProgress |-> 60]
  /\ mealsView = [shown |-> TRUE, meals |-> <<"m1">>]

(* ------------------- the meal list and the statistics ------------------ *)
InitMeals == InitDashboard(LoggedIn, TRUE, NoLimit)

NextMeals ==
  \/ DOMContentLoaded
  \/ \E m \in Meals, c \in BOOLEAN : deleteMeal(m, c)
  \/ \E i \in 1..MaxInflight, out \in Outcomes : DeleteMealResponse(i, out)
  \/ \E i \in 1..MaxInflight, out \in Outcomes, d \in StatsResults : StatsResponse(i, out, d)
  \/ \E i \in 1..MaxInflight, out \in Outcomes, d \in ProfileResults : ProfileResponse(i, out, d)
  \/ \E i \in 1..MaxInflight, out \in Outcomes, d \in MealLists : MealsResponse(i, out, d)

SpecMeals == InitMeals /\ [][NextMeals]_vars

(* --------------------- the nutrition analysis modal -------------------- *)
\* Chart.prototype.destroy on the instance a handle refers to
Destroy(cs, h) == IF h = 0 THEN cs ELSE [cs EXCEPT ![h].destroyed = TRUE]
NewChart(canvas, data) == [canvas |-> canvas, destroyed |-> FALSE, data |-> data]

\* Object.keys(dailyData).sort(), then the calories of each date
RECURSIVE SortedDays(_)
SortedDays(days) ==
  IF days = {} THEN <<>>
  ELSE LET d == Min({x.date : x \in days}) IN
         <<CHOOSE x \in days : x.date = d>> \o SortedDays({x \in days : x.date # d})

\* createMacrosChart, were it to construct the new chart without destroying the old
createMacrosChart_keepingOld(h, cs, protein, carbs, fat) ==
  LET proteinCals == protein * 4
      carbsCals == carbs * 4
      fatCals == fat * 9
      total == proteinCals + carbsCals + fatCals
  IN IF total = 0 THEN [handle |-> h, charts |-> cs]
     ELSE [handle |-> Len(cs) + 1,
           charts |-> Append(cs, NewChart("macrosChart", <<proteinCals, carbsCals, fatCals>>))]

\* the handle and the instances left by createMacrosChart(protein, carbs, fat)
createMacrosChart(h, cs, protein, carbs, fat) ==
  LET cs1 == Destroy(cs, h)
      proteinCals == protein * 4
      carbsCals == carbs * 4
      fatCals == fat * 9
      total == proteinCals + carbsCals + fatCals
  IN IF total = 0 THEN [handle |-> h, charts |-> cs1]
     ELSE [handle |-> Len(cs1) + 1,
           charts |-> Append(cs1, NewChart("macrosChart", <<proteinCals, carbsCals, fatCals>>))]

\* the handle and the instances left by createCaloriesChart(dailyData)
createCaloriesChart(h, cs, dailyData) ==
  LET cs1 == Destroy(cs, h)
      dates == SortedDays(Range(dailyData))
  IN IF Len(dates) = 0 THEN [handle |-> h, charts |-> cs1]
     ELSE [handle |-> Len(cs1) + 1,
           charts |-> Append(cs1, NewChart("caloriesChart",
                                           [k \in DOMAIN dates |-> dates[k].calories]))]

\* showNutritionAnalysis: open the modal, loadAnalysis up to the await
showNutritionAnalysis(period) ==
  /\ Spend("dashboard")
  /\ Len(inflight) < MaxInflight
  /\ analysisModal' = "block"
  /\ inflight' = Append(inflight, Call("loadAnalysis", <<period>>, "loadAnalysis", 0))
  /\ UNCHANGED <<location, storage, configDefined, token, loaded, joins, timers, alerts,
                 analysisView, macrosChart, caloriesChart, charts, exChart>>

\* loadAnalysis after the await; displayAnalysisData on a 2xx
LoadAnalysisResponse(i, out, data) ==
  /\ i \in DOMAIN inflight /\ inflight[i].site = "loadAnalysis"
  /\ out = "ok" \/ data = NoAnalysis
  /\ inflight' = RemoveAt(inflight, i)
  /\ MakeApiCall(out, {})
  /\ IF out = "ok"
     THEN LET m == createMacrosChart(macrosChart, charts, data.total_protein,
                                     data.total_carbs, data.total_fat)
              c == createCaloriesChart(caloriesChart, m.charts, data.daily_data)
          IN /\ Len(c.charts) <= MaxCharts
             /\ analysisView' = [shown |-> TRUE, data |-> data]
             /\ macrosChart' = m.handle
             /\ caloriesChart' = c.handle
             /\ charts' = c.charts
     ELSE UNCHANGED <<analysisView, macrosChart, caloriesChart, charts>>
  /\ UNCHANGED <<configDefined, token, loaded, joins, timers, opsLeft, analysisModal,
                 exChart>>

closeAnalysisModal ==
  /\ Spend("dashboard")
  /\ analysisModal' = "none"
  /\ charts' = Destroy(Destroy(charts, macrosChart), caloriesChart)
  /\ macrosChart' = 0
  /\ caloriesChart' = 0
  /\ UNCHANGED <<location, storage, configDefined, token, loaded, inflight, joins, timers,
                 alerts, analysisView, exChart>>

InitCharts == InitDashboard(LoggedIn, TRUE, NoLimit)

NextCharts ==
  \/ \E p \in Periods : showNutritionAnalysis(p)
  \/ \E i \in 1..MaxInflight, out \in Outcomes, d \in AnalysisResults :
       LoadAnalysisResponse(i, out, d)
  \/ closeAnalysisModal

SpecCharts == InitCharts /\ [][NextCharts]_vars

(* ------------------------------ timers -------------------------------- *)
TimerIds == 1..(MaxTimers + 1)
Timer(id, kind, arg, due) == [id |-> id, kind |-> kind, arg |-> arg, due |-> due]
TimerIdsOf(ts) == {t.id : t \in ts}
\* clearTimeout(id)
ClearTimeout(ts, id) == {t \in ts : t.id # id}
\* the id setTimeout returns: one that no pending timer and no variable holds
FreshTimerId(ts, held) == Min(TimerIds \ (TimerIdsOf(ts) \cup held))

\* time passes by one tick; a timer that is due fires before time passes further
Tick ==
  /\ timers # {}
  /\ \A t \in timers : t.due >= TickMs
  /\ timers' = {[t EXCEPT !.due = @ - TickMs] : t \in timers}
  /\ UNCHANGED <<location, storage, configDefined, token, loaded, inflight, joins, alerts,
                 opsLeft, dashboardVars, offDashboard>>

(* --------------------------- the food search --------------------------- *)
showAddMealModal ==
  /\ addMealModal = "none"
  /\ Spend("dashboard")
  /\ addMealModal' = "block"
  /\ UNCHANGED <<location, storage, configDefined, token, loaded, inflight, joins, timers,
                 alerts, mealVars, mealForm, foodSearch, searchTimeout, suggestions,
                 selectedFoodId, selectedFoodName, selectedFood, preview, mealMessage,
                 exFood>>

\* the user edits the mealType and quantity fields
fillMealForm(mealType, quantity) ==
  /\ addMealModal = "block"
  /\ mealForm # [mealType |-> mealType, quantity |-> quantity]
  /\ Spend("dashboard")
  /\ mealForm' = [mealType |-> mealType, quantity |-> quantity]
  /\ UNCHANGED <<location, storage, configDefined, token, loaded, inflight, joins, timers,
                 alerts, mealVars, addMealModal, foodSearch, searchTimeout, suggestions,
                 selectedFoodId, selectedFoodName, selectedFood, preview, mealMessage,
                 exFood>>

\* the input listener of setupFoodSearch without its clearTimeout
FoodSearchInput_noClear(value) ==
  /\ loaded /\ addMealModal = "block"
  /\ value # foodSearch
  /\ Spend("dashboard")
  /\ foodSearch' = value
  /\ LET query == Trim(value) IN
       IF Len(query) < 2
       THEN /\ timers' = timers
            /\ suggestions' = NoSuggestions
            /\ searchTimeout' = searchTimeout
       ELSE /\ Cardinality(timers) < MaxTimers
            /\ LET id == FreshTimerId(timers, {searchTimeout}) IN
                 /\ timers' = timers \cup {Timer(id, "search", query, DebounceMs)}
                 /\ searchTimeout' = id
            /\ suggestions' = suggestions
  /\ UNCHANGED <<location, storage, configDefined, token, loaded, inflight, joins, alerts,
                 mealVars, addMealModal, mealForm, selectedFoodId, selectedFoodName,
                 selectedFood, preview, mealMessage, exFood>>

\* the input listener of setupFoodSearch: the box now holds `value`
FoodSearchInput(value) ==
  /\ loaded /\ addMealModal = "block"
  /\ value # foodSearch
  /\ Spend("dashboard")
  /\ foodSearch' = value
  /\ LET query == Trim(value)
         cleared == ClearTimeout(timers, searchTimeout)
     IN IF Len(query) < 2
        THEN /\ timers' = cleared
             /\ suggestions' = NoSuggestions
             /\ searchTimeout' = searchTimeout
        ELSE /\ Cardinality(cleared) < MaxTimers
             /\ LET id == FreshTimerId(cleared, {}) IN
                  /\ timers' = cleared \cup {Timer(id, "search", query, DebounceMs)}
                  /\ searchTimeout' = id
             /\ suggestions' = suggestions
  /\ UNCHANGED <<location, storage, configDefined, token, loaded, inflight, joins, alerts,
                 mealVars, addMealModal, mealForm, selectedFoodId, selectedFoodName,
                 selectedFood, preview, mealMessage, exFood>>

\* the debounce timer fires: searchFood(query) up to the await
SearchTimerFires(t) ==
  /\ t \in timers /\ t.kind = "search" /\ t.due = 0
  /\ Len(inflight) < MaxInflight
  /\ timers' = timers \ {t}
  /\ inflight' = Append(inflight, Call("searchFood", t.arg, "searchFood", 0))
  /\ UNCHANGED <<location, storage, configDefined, token, loaded, joins, alerts, opsLeft,
                 mealVars, foodVars, exFood>>

displayFoodSuggestions(foods) ==
  IF Len(foods) = 0 THEN NoFoodsFound ELSE [kind |-> "list", foods |-> foods]

\* searchFood after the await, were it to drop the response of a query that is no
\* longer the one in the box
SearchFoodResponse_dropStale(i, out, hasFoods) ==
  /\ i \in DOMAIN inflight /\ inflight[i].site = "searchFood"
  /\ out = "ok" \/ hasFoods
  /\ inflight' = RemoveAt(inflight, i)
  /\ MakeApiCall(out, {})
  /\ suggestions' = IF out = "ok" /\ inflight[i].arg = Trim(foodSearch)
                    THEN displayFoodSuggestions(IF hasFoods THEN Catalog(inflight[i].arg)
                                                ELSE <<>>)
                    ELSE suggestions
  /\ UNCHANGED <<configDefined, token, loaded, joins, timers, opsLeft, mealVars,
                 addMealModal, mealForm, foodSearch, searchTimeout, selectedFoodId,
                 selectedFoodName, selectedFood, preview, mealMessage, exFood>>

\* searchFood after the await; hasFoods: whether the result has a foods property
SearchFoodResponse(i, out, hasFoods) ==
  /\ i \in DOMAIN inflight /\ inflight[i].site = "searchFood"
  /\ out = "ok" \/ hasFoods
  /\ inflight' = RemoveAt(inflight, i)
  /\ MakeApiCall(out, {})
  /\ suggestions' = IF out = "ok"
                    THEN displayFoodSuggestions(IF hasFoods THEN Catalog(inflight[i].arg)
                                                ELSE <<>>)
                    ELSE suggestions
  /\ UNCHANGED <<configDefined, token, loaded, joins, timers, opsLeft, mealVars,
                 addMealModal, mealForm, foodSearch, searchTimeout, selectedFoodId,
                 selectedFoodName, selectedFood, preview, mealMessage, exFood>>

(* ----------------- selecting a food and adding a meal ------------------ *)
\* selectFood(foodId, foodName) up to the await, from the k-th suggestion shown
selectFood(k) ==
  /\ addMealModal = "block"
  /\ suggestions.kind = "list" /\ k \in DOMAIN suggestions.foods
  /\ Spend("dashboard")
  /\ Len(inflight) < MaxInflight
  /\ LET food == suggestions.foods[k] IN
       /\ selectedFoodId' = food.food_id
       /\ selectedFoodName' = food.food_name
       /\ foodSearch' = food.food_name
       /\ inflight' = Append(inflight, Call("selectFood", food.food_id, "selectFood", 0))
  /\ suggestions' = NoSuggestions
  /\ preview' = [display |-> "block", calories |-> Loading, protein |-> Loading,
                 carbs |-> Loading, fat |-> Loading]
  /\ UNCHANGED <<location, storage, configDefined, token, loaded, joins, timers, alerts,
                 mealVars, addMealModal, mealForm, searchTimeout, selectedFood,
                 mealMessage, exFood>>

\* x || '0'
Or0(x) == IF Truthy(x) THEN x ELSE <<"0">>

\* the serving both displayNutritionPreview and the submit handler read:
\* servings.serving[0] of an array, servings.serving itself otherwise
TheObject(serving) == serving[1]
FirstServing_last(foodData) ==
  IF foodData.isArray THEN foodData.serving[Len(foodData.serving)]
  ELSE TheObject(foodData.serving)

FirstServing(foodData) ==
  IF foodData.isArray THEN Head(foodData.serving) ELSE TheObject(foodData.serving)

\* whether reading a property of that serving throws (it is undefined)
NoServing(foodData) == foodData.serving = <<>>

\* displayNutritionPreview(foodData): the preview it leaves, and whether it threw
displayNutritionPreview(foodData) ==
  IF ~foodData.hasFood \/ ~foodData.hasServings
  THEN [threw |-> FALSE, preview |-> preview]
  ELSE IF NoServing(foodData)
  THEN [threw |-> TRUE, preview |-> preview]
  ELSE LET serving == FirstServing(foodData) IN
         [threw |-> FALSE,
          preview |-> [display |-> "block", calories |-> Or0(serving.calories),
                       protein |-> Or0(serving.protein),
                       carbs |-> Or0(serving.carbohydrate), fat |-> Or0(serving.fat)]]

\* selectFood after the await
SelectFoodResponse(i, out, shape) ==
  /\ i \in DOMAIN inflight /\ inflight[i].site = "selectFood"
  /\ out = "ok" \/ shape = NoDetails
  /\ inflight' = RemoveAt(inflight, i)
  /\ MakeApiCall(out, {})
  /\ LET result == Details(inflight[i].arg, shape)
         shown == displayNutritionPreview(result)
     IN IF out = "ok" /\ ~shown.threw
        THEN /\ preview' = shown.preview
             /\ selectedFood' = result
        ELSE /\ preview' = [preview EXCEPT !.calories = ErrorText]
             /\ selectedFood' = selectedFood
  /\ UNCHANGED <<configDefined, token, loaded, joins, timers, opsLeft, mealVars,
                 addMealModal, mealForm, foodSearch, searchTimeout, suggestions,
                 selectedFoodId, selectedFoodName, mealMessage, exFood>>

\* whether building mealData throws: a held result whose serving is undefined
MealDataThrows ==
  /\ selectedFoodName # <<>> /\ selectedFoodId # <<>>
  /\ ~selectedFood.null /\ selectedFood.hasFood /\ selectedFood.hasServings
  /\ NoServing(selectedFood)

\* the mealData, were the manual fallback to carry the hidden food id as well
MealData_idInFallback ==
  LET base == [NoBody EXCEPT !.mealType = mealForm.mealType,
                             !.quantity = mealForm.quantity]
  IN IF selectedFoodName # <<>> /\ selectedFoodId # <<>>
     THEN LET named == [base EXCEPT !.foodName = selectedFoodName,
                                    !.food_id = selectedFoodId]
          IN IF ~selectedFood.null /\ selectedFood.hasFood /\ selectedFood.hasServings
             THEN LET serving == FirstServing(selectedFood) IN
                    [named EXCEPT !.calories = Num(ParseIntOr0(serving.calories)),
                                  !.protein = Num(ParseFloatOr0(serving.protein)),
                                  !.carbs = Num(ParseFloatOr0(serving.carbohydrate)),
                                  !.fat = Num(ParseFloatOr0(serving.fat))]
             ELSE named
     ELSE [base EXCEPT !.foodName = foodSearch, !.food_id = <<"f1">>,
                       !.calories = Num(0)]

\* the mealData the submit handler builds
MealData ==
  LET base == [NoBody EXCEPT !.mealType = mealForm.mealType,
                             !.quantity = mealForm.quantity]
  IN IF selectedFoodName # <<>> /\ selectedFoodId # <<>>
     THEN LET named == [base EXCEPT !.foodName = selectedFoodName,
                                    !.food_id = selectedFoodId]
          IN IF ~selectedFood.null /\ selectedFood.hasFood /\ selectedFood.hasServings
             THEN LET serving == FirstServing(selectedFood) IN
                    [named EXCEPT !.calories = Num(ParseIntOr0(serving.calories)),
                                  !.protein = Num(ParseFloatOr0(serving.protein)),
                                  !.carbs = Num(ParseFloatOr0(serving.carbohydrate)),
                                  !.fat = Num(ParseFloatOr0(serving.fat))]
             ELSE named
     ELSE [base EXCEPT !.foodName = foodSearch, !.calories = Num(0)]

\* the submit listener of #addMealForm up to the await
addMealSubmit ==
  /\ addMealModal = "block"
  /\ Spend("dashboard")
  /\ IF MealDataThrows THEN inflight' = inflight
     ELSE /\ Len(inflight) < MaxInflight
          /\ inflight' = Append(inflight, CallWith("addMeal", NoArg, MealData, "addMeal", 0))
  /\ UNCHANGED <<location, storage, configDefined, token, loaded, joins, timers, alerts,
                 mealVars, foodVars, exFood>>

MealAdded == [class |-> "message success", text |-> "Meal added successfully!"]
MealError(err) == [class |-> "message error",
                   text |-> IF err = "" THEN "Error: Unknown error" ELSE err]
MealNetworkError == [class |-> "message error",
                     text |-> "Error adding meal. Please try again."]
\* 'Error: ' + result.error for the error texts the server sends
AddErrors == {"", "Error: Food name is required"}

\* the submit listener after the await, were it to reset the form whatever the answer
AddMealResponse_alwaysResetting(i, out, err) ==
  /\ i \in DOMAIN inflight /\ inflight[i].site = "addMeal"
  /\ out = "fail" \/ err = ""
  /\ MakeApiCall(out, {})
  /\ mealForm' = EmptyForm
  /\ foodSearch' = <<>>
  /\ selectedFoodId' = <<>>
  /\ selectedFoodName' = <<>>
  /\ LET rest == RemoveAt(inflight, i) IN
       IF out = "ok"
       THEN /\ CanRefetch(rest)
            /\ Cardinality(timers) < MaxTimers
            /\ mealMessage' = MealAdded
            /\ LET g == Min(FreeJoin) IN
                 /\ inflight' = rest \o Refetch("addMeal", g)
                 /\ joins' = [joins EXCEPT ![g] = NewJoin]
            /\ timers' = timers \cup
                 {Timer(FreshTimerId(timers, {searchTimeout}), "closeModal", NoArg,
                        CloseModalMs)}
       ELSE /\ inflight' = rest
            /\ mealMessage' = IF out = "neterr" THEN MealNetworkError
                              ELSE IF out = "unauth" THEN MealError("Error: Unauthorized")
                              ELSE MealError(err)
            /\ UNCHANGED <<joins, timers>>
  /\ UNCHANGED <<configDefined, token, loaded, opsLeft, mealVars, addMealModal,
                 searchTimeout, suggestions, selectedFood, preview, exFood>>

\* the submit listener after the await; err is result.error
AddMealResponse(i, out, err) ==
  /\ i \in DOMAIN inflight /\ inflight[i].site = "addMeal"
  /\ out = "fail" \/ err = ""
  /\ MakeApiCall(out, {})
  /\ LET rest == RemoveAt(inflight, i) IN
       IF out = "ok"
       THEN /\ CanRefetch(rest)
            /\ Cardinality(timers) < MaxTimers
            /\ mealMessage' = MealAdded
            /\ mealForm' = EmptyForm
            /\ foodSearch' = <<>>
            /\ selectedFoodId' = <<>>
            /\ selectedFoodName' = <<>>
            /\ LET g == Min(FreeJoin) IN
                 /\ inflight' = rest \o Refetch("addMeal", g)
                 /\ joins' = [joins EXCEPT ![g] = NewJoin]
            /\ timers' = timers \cup
                 {Timer(FreshTimerId(timers, {searchTimeout}), "closeModal", NoArg,
                        CloseModalMs)}
       ELSE /\ inflight' = rest
            /\ mealMessage' = IF out = "neterr" THEN MealNetworkError
                              ELSE IF out = "unauth" THEN MealError("Error: Unauthorized")
                              ELSE MealError(err)
            /\ UNCHANGED <<mealForm, foodSearch, selectedFoodId, selectedFoodName, joins,
                           timers>>
  /\ UNCHANGED <<configDefined, token, loaded, opsLeft, mealVars, addMealModal,
                 searchTimeout, suggestions, selectedFood, preview, exFood>>

\* what closeModal() assigns
CloseModal ==
  /\ addMealModal' = "none"
  /\ mealMessage' = [mealMessage EXCEPT !.text = ""]
  /\ suggestions' = NoSuggestions
  /\ preview' = [preview EXCEPT !.display = "none"]
  /\ selectedFoodId' = <<>>
  /\ selectedFoodName' = <<>>
  /\ selectedFood' = NullFood

\* the user closes the add-meal modal (its close button, or a click outside it)
closeModal ==
  /\ addMealModal = "block"
  /\ Spend("dashboard")
  /\ CloseModal
  /\ UNCHANGED <<location, storage, configDefined, token, loaded, inflight, joins, timers,
                 alerts, mealVars, mealForm, foodSearch, searchTimeout, exFood>>

\* the timer set by a successful add fires
CloseModalTimerFires(t) ==
  /\ t \in timers /\ t.kind = "closeModal" /\ t.due = 0
  /\ timers' = timers \ {t}
  /\ CloseModal
  /\ UNCHANGED <<location, storage, configDefined, token, loaded, inflight, joins, alerts,
                 opsLeft, mealVars, mealForm, foodSearch, searchTimeout, exFood>>


(* ------------------ the specifications of the food panel --------------- *)
\* the re-fetch of a successful add answers what the page already shows
ShownStats == {[total_calories |-> 1500, goal_progress |-> 60]}
ShownProfile == {[dailyCalories |-> 0]}
ShownMeals == {<<"m1">>}

RefetchResponses ==
  \/ \E i \in 1..MaxInflight, d \in ShownStats : StatsResponse(i, "ok", d)
  \/ \E i \in 1..MaxInflight, d \in ShownProfile : ProfileResponse(i, "ok", d)
  \/ \E i \in 1..MaxInflight, d \in ShownMeals : MealsResponse(i, "ok", d)

InitFood == InitLoaded(NoLimit)

NextSearch ==
  \/ showAddMealModal
  \/ \E v \in Typed : FoodSearchInput(v)
  \/ \E t \in timers : SearchTimerFires(t)
  \/ \E i \in 1..MaxInflight, out \in Outcomes, f \in BOOLEAN : SearchFoodResponse(i, out, f)
  \/ closeModal
  \/ Tick

SpecSearch == InitFood /\ [][NextSearch]_vars

\* the food panel with one query typed
OneQuery == {QueryAp}

\* selecting among the suggestions of that query, every shape of details
NextSelect ==
  \/ showAddMealModal
  \/ \E v \in OneQuery : FoodSearchInput(v)
  \/ \E t \in timers : SearchTimerFires(t)
  \/ \E i \in 1..MaxInflight : SearchFoodResponse(i, "ok", TRUE)
  \/ \E k \in 1..2 : selectFood(k)
  \/ \E i \in 1..MaxInflight, out \in Outcomes, sh \in DetailShapes :
       SelectFoodResponse(i, out, sh)
  \/ closeModal
  \/ Tick

SpecSelect == InitFood /\ [][NextSelect]_vars

\* selecting and adding, with three shapes of details, for MaxFoodOps user operations
FewShapes == {Shape(TRUE, FALSE, FALSE, <<>>), Shape(TRUE, TRUE, FALSE, <<ServingA>>),
              Shape(TRUE, TRUE, TRUE, <<ServingB, ServingA>>)}

NextFood ==
  \/ showAddMealModal
  \/ \E v \in OneQuery : FoodSearchInput(v)
  \/ \E t \in timers : SearchTimerFires(t)
  \/ \E i \in 1..MaxInflight : SearchFoodResponse(i, "ok", TRUE)
  \/ \E k \in 1..2 : selectFood(k)
  \/ \E i \in 1..MaxInflight, out \in {"ok", "fail"}, sh \in FewShapes \cup {NoDetails} :
       SelectFoodResponse(i, out, sh)
  \/ addMealSubmit
  \/ \E i \in 1..MaxInflight, out \in {"ok", "fail", "neterr"} : AddMealResponse(i, out, "")
  \/ \E t \in timers : CloseModalTimerFires(t)
  \/ RefetchResponses
  \/ closeModal
  \/ Tick

SpecFood == InitLoaded(MaxFoodOps) /\ [][NextFood]_vars

(* ------------------------------ the profile ---------------------------- *)
exProfile == <<mealVars, chartVars, foodVars, aiVars, offDashboard>>

T30 == <<"3", "0">>
T70 == <<"7", "0">>
T175 == <<"1", "7", "5">>
\* what the user can have in the profile forms
FullProfile(gender, activityLevel, weeklyGoal) ==
  [fullName |-> "Ann", age |-> T30, gender |-> gender, height |-> T175, weight |-> T70,
   activityLevel |-> activityLevel, primaryGoal |-> "maintain", weeklyGoal |-> weeklyGoal]
ProfileForms ==
  {EmptyProfile,
   FullProfile("male", "moderate", <<"0">>),
   FullProfile("female", "sedentary", <<"-", "0", ".", "5">>),
   [FullProfile("male", "moderate", <<"0">>) EXCEPT !.age = <<"0">>],
   [FullProfile("male", "moderate", <<"0">>) EXCEPT !.primaryGoal = ""]}
\* what GET /profile answers: the stored fields, with the goals once calculated
ServerProfiles ==
  {[form |-> EmptyProfile, goals |-> NoGoals],
   [form |-> FullProfile("male", "moderate", <<"0">>),
    goals |-> [dailyCalories |-> 2000, dailyProtein |-> 125, dailyCarbs |-> 225,
               dailyFat |-> 67]]}

\* parseFloat of a text with an optional sign, in tenths
SignedTenths(t) ==
  IF t # <<>> /\ Head(t) = "-" THEN 0 - ParseFloatOr0(Tail(t)) ELSE ParseFloatOr0(t)

\* activityMultipliers[activityLevel] || 1.2, in thousandths
ActivityMultiplier(activityLevel) ==
  CASE activityLevel = "sedentary" -> 1200
    [] activityLevel = "light" -> 1375
    [] activityLevel = "moderate" -> 1550
    [] activityLevel = "active" -> 1725
    [] activityLevel = "very_active" -> 1900
    [] OTHER -> 1200

\* whether calculateGoals finds a personal field missing or zero
GoalsIncomplete(f) ==
  \/ ParseIntOr0(f.age) = 0 \/ ParseFloatOr0(f.weight) = 0 \/ ParseIntOr0(f.height) = 0
  \/ f.gender = "" \/ f.activityLevel = ""

\* the goals, were the BMR of every gender the one of 'male'
GoalsData_sameForAll(f) ==
  LET age == ParseIntOr0(f.age) \div 10
      weightTenths == ParseFloatOr0(f.weight)
      height == ParseIntOr0(f.height) \div 10
      bmr4 == 4 * weightTenths + 25 * height - 20 * age + 20
      weeklyTenths == SignedTenths(f.weeklyGoal)
      dailyCalories == RoundDiv(bmr4 * ActivityMultiplier(f.activityLevel)
                                  + weeklyTenths * 110 * 4000, 4000)
  IN [dailyCalories |-> dailyCalories,
      dailyProtein |-> RoundDiv(dailyCalories, 16),
      dailyCarbs |-> RoundDiv(9 * dailyCalories, 80),
      dailyFat |-> RoundDiv(dailyCalories, 30)]

\* the goals calculateGoals computes; four times the BMR is an integer
GoalsData(f) ==
  LET age == ParseIntOr0(f.age) \div 10
      weightTenths == ParseFloatOr0(f.weight)
      height == ParseIntOr0(f.height) \div 10
      bmr4 == 4 * weightTenths + 25 * height - 20 * age
                + (IF f.gender = "male" THEN 20 ELSE 0 - 644)
      weeklyTenths == SignedTenths(f.weeklyGoal)
      dailyCalories == RoundDiv(bmr4 * ActivityMultiplier(f.activityLevel)
                                  + weeklyTenths * 110 * 4000, 4000)
  IN [dailyCalories |-> dailyCalories,
      dailyProtein |-> RoundDiv(dailyCalories, 16),
      dailyCarbs |-> RoundDiv(9 * dailyCalories, 80),
      dailyFat |-> RoundDiv(dailyCalories, 30)]

displayCalculatedGoals(goals) == calculatedGoals' = [display |-> "block", goals |-> goals]

\* showProfile(): opens the modal and runs loadUserProfile up to the await
showProfile ==
  /\ Spend("dashboard")
  /\ Len(inflight) < MaxInflight
  /\ profileModal' = "block"
  /\ inflight' = Append(inflight, Call("loadProfile", NoArg, "showProfile", 0))
  /\ UNCHANGED <<location, storage, configDefined, token, loaded, joins, timers, alerts,
                 profileForm, profileMessage, calculatedGoals, exProfile>>

\* loadUserProfile after the await
LoadProfileResponse(i, out, profile) ==
  /\ i \in DOMAIN inflight /\ inflight[i].site = "loadProfile"
  /\ inflight' = RemoveAt(inflight, i)
  /\ MakeApiCall(out, {})
  /\ IF out = "ok"
     THEN /\ profileForm' = profile.form
          /\ IF profile.goals.dailyCalories # 0 THEN displayCalculatedGoals(profile.goals)
             ELSE calculatedGoals' = calculatedGoals
     ELSE UNCHANGED <<profileForm, calculatedGoals>>
  /\ UNCHANGED <<configDefined, token, loaded, joins, timers, opsLeft, profileModal,
                 profileMessage, exProfile>>

closeProfileModal ==
  /\ profileModal = "block"
  /\ Spend("dashboard")
  /\ profileModal' = "none"
  /\ profileMessage' = [profileMessage EXCEPT !.text = "", !.fields = <<>>]
  /\ calculatedGoals' = [calculatedGoals EXCEPT !.display = "none"]
  /\ UNCHANGED <<location, storage, configDefined, token, loaded, inflight, joins, timers,
                 alerts, profileForm, exProfile>>

\* the user fills the profile forms
fillProfileForm(data) ==
  /\ profileModal = "block"
  /\ profileForm # data
  /\ Spend("dashboard")
  /\ profileForm' = data
  /\ UNCHANGED <<location, storage, configDefined, token, loaded, inflight, joins, timers,
                 alerts, profileModal, profileMessage, calculatedGoals, exProfile>>

FillPersonalFirst == "Please fill in all personal information fields first."
calculateGoals ==
  /\ profileModal = "block"
  /\ Spend("dashboard")
  /\ IF GoalsIncomplete(profileForm)
     THEN /\ profileMessage' = [class |-> "message error", text |-> FillPersonalFirst,
                                fields |-> <<>>]
          /\ calculatedGoals' = calculatedGoals
     ELSE /\ profileMessage' = [profileMessage EXCEPT !.text = "", !.fields = <<>>]
          /\ displayCalculatedGoals(GoalsData(profileForm))
  /\ UNCHANGED <<location, storage, configDefined, token, loaded, inflight, joins, timers,
                 alerts, profileModal, profileForm, exProfile>>

RequiredFields == <<"fullName", "age", "gender", "height", "weight", "activityLevel",
                    "primaryGoal">>
FieldEmpty(f, name) ==
  CASE name = "fullName" -> f.fullName = ""
    [] name = "age" -> f.age = <<>>
    [] name = "gender" -> f.gender = ""
    [] name = "height" -> f.height = <<>>
    [] name = "weight" -> f.weight = <<>>
    [] name = "activityLevel" -> f.activityLevel = ""
    [] name = "primaryGoal" -> f.primaryGoal = ""
missingFields(f) == SelectSeq(RequiredFields, LAMBDA name : FieldEmpty(f, name))

ProfileSaved ==
  "Profile saved successfully! Your personalized goals have been calculated."
ErrorSavingProfile == "Error saving profile"
ErrorSavingProfileRetry == "Error saving profile. Please try again."

\* saveProfile() up to the await
saveProfile ==
  /\ profileModal = "block"
  /\ Spend("dashboard")
  /\ IF missingFields(profileForm) # <<>>
     THEN /\ profileMessage' = [class |-> "message error", text |-> "Please fill in: ",
                                fields |-> missingFields(profileForm)]
          /\ inflight' = inflight
     ELSE /\ Len(inflight) < MaxInflight
          /\ profileMessage' = profileMessage
          /\ inflight' = Append(inflight, Call("saveProfile", NoArg, "saveProfile", 0))
  /\ UNCHANGED <<location, storage, configDefined, token, loaded, joins, timers, alerts,
                 profileModal, profileForm, calculatedGoals, exProfile>>

\* saveProfile after the await; hasProfile: whether the result has a profile, which
\* displayCalculatedGoals reads, and saved is that profile; err is result.error
SaveProfileResponse(i, out, hasProfile, saved, err) ==
  /\ i \in DOMAIN inflight /\ inflight[i].site = "saveProfile"
  /\ out = "ok" \/ ~hasProfile
  /\ out = "fail" \/ err = ""
  /\ MakeApiCall(out, {})
  /\ LET rest == RemoveAt(inflight, i) IN
       IF out = "ok" /\ hasProfile
       THEN /\ Len(rest) + 2 <= MaxInflight /\ FreeJoin # {}
            /\ profileMessage' = [class |-> "message success", text |-> ProfileSaved,
                                  fields |-> <<>>]
            /\ displayCalculatedGoals(saved.goals)
            /\ LET g == Min(FreeJoin) IN
                 /\ inflight' = rest \o StatsCalls("saveProfile", g)
                 /\ joins' = [joins EXCEPT ![g] = NewJoin]
       ELSE /\ inflight' = rest
            /\ profileMessage' =
                 [class |-> "message error",
                  text |-> IF out \in {"ok", "neterr"} THEN ErrorSavingProfileRetry
                           ELSE IF out = "unauth" THEN "Unauthorized"
                           ELSE IF err = "" THEN ErrorSavingProfile ELSE err,
                  fields |-> <<>>]
            /\ UNCHANGED <<calculatedGoals, joins>>
  /\ UNCHANGED <<configDefined, token, loaded, timers, opsLeft, profileModal, profileForm,
                 exProfile>>

ComingSoon == "Goal Setting feature coming soon!"
showGoalSetting ==
  /\ ComingSoon \notin alerts
  /\ Spend("dashboard")
  /\ alerts' = alerts \cup {ComingSoon}
  /\ UNCHANGED <<location, storage, configDefined, token, loaded, inflight, joins, timers,
                 dashboardVars, offDashboard>>

\* logout(): both entries are removed when CONFIG is defined, the token alone otherwise
logout ==
  /\ Spend("dashboard")
  /\ storage' = IF configDefined
                THEN [storage EXCEPT ![TOKEN_KEY] = None, ![USER_PREFERENCES] = None]
                ELSE [storage EXCEPT ![TOKEN_KEY] = None]
  /\ location' = "index.html"
  /\ UNCHANGED <<configDefined, token, loaded, inflight, joins, timers, alerts,
                 dashboardVars, offDashboard>>

(* ----------------------------- the analytics --------------------------- *)
exAi == <<mealVars, chartVars, foodVars, profileVars, offDashboard>>

\* runDietClassification, runLSTMForecast and runClusterAnalysis up to the await,
\* started with the analyze button or with the refresh button; the button's innerHTML
\* at that moment is the run's originalHTML
runAnalysis(p, via) ==
  /\ loaded
  /\ IF via = "analyze"
     THEN ~analyzeBtn[p].disabled /\ analyzeBtn[p].display = "shown"
     ELSE refreshBtn[p] = "flex"
  /\ Spend("dashboard")
  /\ Len(inflight) < MaxInflight
  /\ analyzeBtn' = [analyzeBtn EXCEPT ![p].disabled = TRUE, ![p].html = "spinner"]
  /\ aiResults' = IF p = "cluster" THEN aiResults
                  ELSE [aiResults EXCEPT ![p] = [display |-> "block",
                                                 content |-> "loading"]]
  /\ inflight' = Append(inflight, Call(p, <<analyzeBtn[p].html>>, p, 0))
  /\ UNCHANGED <<location, storage, configDefined, token, loaded, joins, timers, alerts,
                 refreshBtn, exAi>>

ClusteringFailed == "Failed to perform clustering analysis"
ClusteringError == "Failed to perform clustering analysis. Please check"
NeedMoreMeals == "You need at least 5 meals for clustering analysis."

\* the run rendering results on every 2xx response, whatever result.success is
Renders_onAnyOk(p, out, success) == out = "ok"

\* whether the run renders results: response.ok for the diet classification,
\* response.ok && result.success for the forecast and the clustering
Renders(p, out, success) == out = "ok" /\ (p = "diet" \/ success)

\* the three operations after the await, with their finally block; success is
\* result.success, fewMeals whether the result has current_meals
AnalysisResponse(i, out, success, fewMeals) ==
  /\ i \in DOMAIN inflight /\ inflight[i].site \in Panels
  /\ out = "ok" \/ ~success
  /\ out \in {"ok", "fail"} \/ ~fewMeals
  /\ LET p == inflight[i].site
         originalHTML == inflight[i].arg[1]
     IN /\ inflight' = RemoveAt(inflight, i)
        /\ MakeApiCall(out,
             IF p # "cluster" \/ Renders(p, out, success) THEN {}
             ELSE IF out = "neterr" THEN {ClusteringError}
             ELSE {ClusteringFailed} \cup (IF fewMeals THEN {NeedMoreMeals} ELSE {}))
        /\ analyzeBtn' =
             [analyzeBtn EXCEPT ![p] =
                [disabled |-> FALSE, html |-> originalHTML,
                 display |-> IF p = "cluster" /\ Renders(p, out, success) THEN "none"
                             ELSE analyzeBtn[p].display]]
        /\ refreshBtn' = IF Renders(p, out, success) THEN [refreshBtn EXCEPT ![p] = "flex"]
                         ELSE refreshBtn
        /\ aiResults' =
             IF Renders(p, out, success)
             THEN [aiResults EXCEPT ![p] = [display |-> "block", content |-> "results"]]
             ELSE IF p = "cluster" THEN aiResults
             ELSE [aiResults EXCEPT ![p].content =
                     IF out = "neterr" THEN "connection error" ELSE "failed"]
  /\ UNCHANGED <<configDefined, token, loaded, joins, timers, opsLeft, exAi>>

(* --------------------------- the config resolver ----------------------- *)
\* the URLs of the CONFIG object, character by character
LocalApiUrl ==
  <<"h", "t", "t", "p", ":", "/", "/", "l", "o", "c", "a", "l", "h", "o", "s", "t",
    ":", "5", "0", "0", "0">>
RemoteApiUrl ==
  <<"h", "t", "t", "p", "s", ":", "/", "/", "n", "u", "t", "r", "i", "t", "i", "o",
    "n", "-", "a", "d", "v", "i", "s", "o", "r", "-", "a", "9", "3", "q", ".", "o",
    "n", "r", "e", "n", "d", "e", "r", ".", "c", "o", "m">>
LocalFrontendUrl ==
  <<"h", "t", "t", "p", ":", "/", "/", "l", "o", "c", "a", "l", "h", "o", "s", "t",
    ":", "3", "0", "0", "0">>
RemoteFrontendUrl ==
  <<"h", "t", "t", "p", "s", ":", "/", "/", "n", "u", "t", "r", "i", "t", "i", "o",
    "n", "-", "a", "d", "v", "i", "s", "o", "r", "-", "f", "r", "o", "n", "t", "e",
    "n", "d", ".", "o", "n", "r", "e", "n", "d", "e", "r", ".", "c", "o", "m">>

IsLocalHost(host) == host = "localhost" \/ host = "127.0.0.1"

\* the CONFIG object literal, evaluated for window.location.hostname = host
CONFIG(host) ==
  [ENVIRONMENT |-> IF IsLocalHost(host) THEN "development" ELSE "production",
   API_BASE_URL |-> IF IsLocalHost(host) THEN LocalApiUrl ELSE RemoteApiUrl,
   FRONTEND_URL |-> IF IsLocalHost(host) THEN LocalFrontendUrl ELSE RemoteFrontendUrl,
   FEATURES |-> [AI_ENABLED |-> TRUE,
                 DEBUG_MODE |-> host = "localhost",
                 ANALYTICS |-> host # "localhost",
                 SERVICE_WORKER |-> host # "localhost"],
   TIMEOUTS |-> [DEFAULT |-> IF host = "localhost" THEN 5000 ELSE 10000,
                 UPLOAD |-> 30000,
                 AI_REQUEST |-> 15000]]

StartsWithSlash(endpoint) == endpoint # <<>> /\ Head(endpoint) = "/"

\* CONFIG.getApiUrl, were it to put a '/' before every endpoint
getApiUrl_alwaysSlash(host, endpoint) ==
  CONFIG(host).API_BASE_URL \o <<"/">> \o endpoint

\* CONFIG.getApiUrl(endpoint)
getApiUrl(host, endpoint) ==
  CONFIG(host).API_BASE_URL \o (IF StartsWithSlash(endpoint) THEN <<>> ELSE <<"/">>)
    \o endpoint

isLocal(host) == CONFIG(host).ENVIRONMENT = "development"
isProduction(host) == CONFIG(host).ENVIRONMENT = "production"

\* the endpoints getApiUrl is applied to: the texts over '/' and one letter
RECURSIVE TextsOfLen(_)
TextsOfLen(n) ==
  IF n = 0 THEN {<<>>}
  ELSE {Append(t, c) : t \in TextsOfLen(n - 1), c \in {"/", "a"}}
Endpoints == UNION {TextsOfLen(n) : n \in 0..MaxEndpointLen}

\* a script of the page calls CONFIG.getApiUrl(endpoint)
CallGetApiUrl(endpoint) ==
  /\ configDefined
  /\ apiUrl' = [endpoint |-> endpoint, url |-> getApiUrl(hostname, endpoint)]
  /\ UNCHANGED <<coreVars, hostname, page, dashboardVars, homeVars, usersVars>>

NextConfig == \E e \in Endpoints : CallGetApiUrl(e)

(* ------------------ the home page and its auth forms ------------------- *)
\* CONFIG.FEATURES.DEBUG_MODE
DebugMode == hostname = "localhost"
Hosts == {"localhost", "127.0.0.1", "nutrition.example"}

P5 == <<"s", "e", "c", "r", "t">>
P6 == <<"s", "e", "c", "r", "e", "t">>
RegisterInputs ==
  {[name |-> n, email |-> e, password |-> P6] : n \in {"", "Ann"}, e \in {"", "ann@x"}}
    \cup {[name |-> "Ann", email |-> "ann@x", password |-> pw] : pw \in {<<>>, P5}}
LoginInputs ==
  {[email |-> "", password |-> P6], [email |-> "ann@x", password |-> <<>>],
   [email |-> "ann@x", password |-> P6]}
\* the JSON body of a 2xx /login response: its token, and whether it has a user
LoginBodies ==
  {[hasToken |-> TRUE, token |-> "jwt", hasUser |-> TRUE],
   [hasToken |-> TRUE, token |-> "jwt2", hasUser |-> TRUE],
   [hasToken |-> TRUE, token |-> "jwt", hasUser |-> FALSE],
   [hasToken |-> FALSE, token |-> "", hasUser |-> TRUE]}
NoLoginBody == [hasToken |-> FALSE, token |-> "", hasUser |-> FALSE]
\* result.error of a response that is not 2xx, "" when it has none
ServerErrors == {"", "Email already registered"}

\* the variables no handler of the home page assigns
exHome == <<configDefined, token, joins, alerts, dashboardVars, envVars, usersVars>>

\* a fetch of the home page: no Authorization header
HomeCall(site, data) ==
  [site |-> site, arg |-> NoArg, body |-> data, tok |-> None, by |-> site, grp |-> 0]

InfoLoading == [class |-> "message info", text |-> "Loading..."]
ErrorMessage(text) == [class |-> "message error", text |-> text]
SuccessMessage(text) == [class |-> "message success", text |-> text]
FillInAllFields == "Please fill in all fields."
PasswordTooShort == "Password must be at least 6 characters long."
RegistrationSuccessful == "Registration successful! You can login now."
RegistrationFailed == "Registration failed"
EnterBoth == "Please enter both email and password."
LoginSuccessful == "Login successful! Redirecting to dashboard..."
LoginFailed == "Login failed"
NetworkError == "Network error. Please check your connection and try again."
TypeErrorText == "TypeError"

\* the timer showMessage sets for a success message
HideTimer(ts, elementId) ==
  Timer(FreshTimerId(ts, {}), "hideMessage", <<elementId>>, HideMessageMs)

\* the listener, were it to schedule the redirect whether or not a token is stored
HomeDOMContentLoaded_always ==
  /\ page = "home"
  /\ ~loaded
  /\ loaded' = TRUE
  /\ timers' = timers \cup {Timer(FreshTimerId(timers, {}), "redirect", NoArg,
                                  LoggedInRedirectMs)}
  /\ UNCHANGED <<location, storage, inflight, opsLeft, homeVars, exHome>>

HomeDOMContentLoaded ==
  /\ page = "home"
  /\ ~loaded
  /\ loaded' = TRUE
  /\ timers' = IF storage[JWT_TOKEN] \notin {None, ""}
               THEN timers \cup {Timer(FreshTimerId(timers, {}), "redirect", NoArg,
                                       LoggedInRedirectMs)}
               ELSE timers
  /\ UNCHANGED <<location, storage, inflight, opsLeft, homeVars, exHome>>

showRegister ==
  /\ authModal # [display |-> "block", section |-> "register"]
  /\ Spend("home")
  /\ authModal' = [display |-> "block", section |-> "register"]
  /\ UNCHANGED <<location, storage, loaded, inflight, timers, registerForm, loginForm,
                 registerMessage, loginMessage, exHome>>

\* what showLogin() assigns
ShowLogin == authModal' = [display |-> "block", section |-> "login"]

showLogin ==
  /\ authModal # [display |-> "block", section |-> "login"]
  /\ Spend("home")
  /\ ShowLogin
  /\ UNCHANGED <<location, storage, loaded, inflight, timers, registerForm, loginForm,
                 registerMessage, loginMessage, exHome>>

\* closeModal() of the home page, also run by the Escape key
closeAuthModal ==
  /\ authModal.display = "block"
  /\ Spend("home")
  /\ authModal' = [authModal EXCEPT !.display = "none"]
  /\ registerMessage' = [registerMessage EXCEPT !.text = ""]
  /\ loginMessage' = [loginMessage EXCEPT !.text = ""]
  /\ UNCHANGED <<location, storage, loaded, inflight, timers, registerForm, loginForm,
                 exHome>>

\* the user fills the registration form
fillRegisterForm(data) ==
  /\ authModal = [display |-> "block", section |-> "register"]
  /\ registerForm # data
  /\ Spend("home")
  /\ registerForm' = data
  /\ UNCHANGED <<location, storage, loaded, inflight, timers, authModal, loginForm,
                 registerMessage, loginMessage, exHome>>

\* the user fills the login form
fillLoginForm(data) ==
  /\ authModal = [display |-> "block", section |-> "login"]
  /\ loginForm # data
  /\ Spend("home")
  /\ loginForm' = data
  /\ UNCHANGED <<location, storage, loaded, inflight, timers, authModal, registerForm,
                 registerMessage, loginMessage, exHome>>

\* the validation of the registration form without its check of the password length
RegisterValidation_anyLength(data) ==
  IF data.name = "" \/ data.email = "" \/ data.password = <<>> THEN FillInAllFields
  ELSE ""

\* the client-side validation of the registration form: "" when the data pass
RegisterValidation(data) ==
  IF data.name = "" \/ data.email = "" \/ data.password = <<>> THEN FillInAllFields
  ELSE IF Len(data.password) < MinPasswordLength THEN PasswordTooShort
  ELSE ""

\* the submit listener of #registerForm, were it to post valid data twice
registerSubmit_twice ==
  /\ authModal = [display |-> "block", section |-> "register"]
  /\ Spend("home")
  /\ IF RegisterValidation(registerForm) # ""
     THEN /\ registerMessage' = ErrorMessage(RegisterValidation(registerForm))
          /\ inflight' = inflight
     ELSE /\ Len(inflight) + 2 <= MaxInflight
          /\ registerMessage' = InfoLoading
          /\ inflight' = inflight \o <<HomeCall("register", registerForm),
                                       HomeCall("register", registerForm)>>
  /\ UNCHANGED <<location, storage, loaded, timers, authModal, registerForm, loginForm,
                 loginMessage, exHome>>

\* the submit listener of #registerForm up to the fetch
registerSubmit ==
  /\ authModal = [display |-> "block", section |-> "register"]
  /\ Spend("home")
  /\ IF RegisterValidation(registerForm) # ""
     THEN /\ registerMessage' = ErrorMessage(RegisterValidation(registerForm))
          /\ inflight' = inflight
     ELSE /\ Len(inflight) < MaxInflight
          /\ registerMessage' = InfoLoading
          /\ inflight' = Append(inflight, HomeCall("register", registerForm))
  /\ UNCHANGED <<location, storage, loaded, timers, authModal, registerForm, loginForm,
                 loginMessage, exHome>>

\* the submit listener of #registerForm from the response on; err is result.error
RegisterResponse(i, out, err) ==
  /\ i \in DOMAIN inflight /\ inflight[i].site = "register"
  /\ out \in {"fail", "unauth"} \/ err = ""
  /\ inflight' = RemoveAt(inflight, i)
  /\ IF out = "ok"
     THEN /\ Cardinality(timers) + 2 <= MaxTimers
          /\ registerMessage' = SuccessMessage(RegistrationSuccessful)
          /\ registerForm' = EmptyRegister
          /\ LET hide == HideTimer(timers, "registerMessage") IN
               timers' = timers \cup
                 {hide, Timer(FreshTimerId(timers \cup {hide}, {}), "showLogin", NoArg,
                              ShowLoginMs)}
     ELSE /\ registerMessage' = ErrorMessage(IF out = "neterr" THEN NetworkError
                                             ELSE IF err = "" THEN RegistrationFailed
                                             ELSE err)
          /\ UNCHANGED <<registerForm, timers>>
  /\ UNCHANGED <<location, storage, loaded, opsLeft, authModal, loginForm, loginMessage,
                 exHome>>

\* the submit listener of #loginForm up to the fetch
loginSubmit ==
  /\ authModal = [display |-> "block", section |-> "login"]
  /\ Spend("home")
  /\ IF loginForm.email = "" \/ loginForm.password = <<>>
     THEN /\ loginMessage' = ErrorMessage(EnterBoth)
          /\ inflight' = inflight
     ELSE /\ Len(inflight) < MaxInflight
          /\ loginMessage' = InfoLoading
          /\ inflight' = Append(inflight, HomeCall("login", loginForm))
  /\ UNCHANGED <<location, storage, loaded, timers, authModal, registerForm, loginForm,
                 registerMessage, exHome>>

\* what localStorage.setItem stores for result.token: String(undefined) when missing
StoredToken(body) == IF body.hasToken THEN body.token ELSE "undefined"
\* JSON.stringify of the user-preferences blob (its loginTime left out)
PrefsBlob == "prefs"

\* the 2xx branch of the login handler, the two setItem calls one after the other
LoginStores(body) ==
  IF body.hasUser
  THEN [storage EXCEPT ![JWT_TOKEN] = StoredToken(body), ![USER_PREFERENCES] = PrefsBlob]
  ELSE [storage EXCEPT ![JWT_TOKEN] = StoredToken(body)]

\* the submit listener of #loginForm from the response on: reading result.user.id
\* throws when the body has no user, and so does result.token.substring in debug
\* mode when it has no token; the catch shows the error's message
LoginResponse(i, out, body, err) ==
  /\ i \in DOMAIN inflight /\ inflight[i].site = "login"
  /\ out \in {"fail", "unauth"} \/ err = ""
  /\ (out = "ok") = (body \in LoginBodies)
  /\ inflight' = RemoveAt(inflight, i)
  /\ IF out = "ok"
     THEN /\ storage' = LoginStores(body)
          /\ IF ~body.hasUser
             THEN /\ loginMessage' = ErrorMessage(TypeErrorText)
                  /\ UNCHANGED <<loginForm, timers>>
             ELSE /\ loginForm' = EmptyLogin
                  /\ LET hide == HideTimer(timers, "loginMessage") IN
                       IF DebugMode /\ ~body.hasToken
                       THEN /\ Cardinality(timers) < MaxTimers
                            /\ loginMessage' = ErrorMessage(TypeErrorText)
                            /\ timers' = timers \cup {hide}
                       ELSE /\ Cardinality(timers) + 2 <= MaxTimers
                            /\ loginMessage' = SuccessMessage(LoginSuccessful)
                            /\ timers' = timers \cup
                                 {hide, Timer(FreshTimerId(timers \cup {hide}, {}),
                                              "redirect", NoArg, RedirectMs)}
     ELSE /\ loginMessage' = ErrorMessage(IF out = "neterr" THEN NetworkError
                                          ELSE IF err = "" THEN LoginFailed ELSE err)
          /\ UNCHANGED <<storage, loginForm, timers>>
  /\ UNCHANGED <<location, loaded, opsLeft, authModal, registerForm, registerMessage,
                 exHome>>

\* the timer of a success message fires
HideMessageFires(t) ==
  /\ t \in timers /\ t.kind = "hideMessage" /\ t.due = 0
  /\ timers' = timers \ {t}
  /\ registerMessage' = IF t.arg = <<"registerMessage">> THEN NoMessage
                        ELSE registerMessage
  /\ loginMessage' = IF t.arg = <<"loginMessage">> THEN NoMessage ELSE loginMessage
  /\ UNCHANGED <<location, storage, loaded, inflight, opsLeft, authModal, registerForm,
                 loginForm, exHome>>

\* the timer of a successful registration fires
ShowLoginFires(t) ==
  /\ t \in timers /\ t.kind = "showLogin" /\ t.due = 0
  /\ timers' = timers \ {t}
  /\ ShowLogin
  /\ UNCHANGED <<location, storage, loaded, inflight, opsLeft, registerForm, loginForm,
                 registerMessage, loginMessage, exHome>>

\* the timer of a successful login, or of a page loaded with a token, fires
RedirectFires(t) ==
  /\ t \in timers /\ t.kind = "redirect" /\ t.due = 0
  /\ timers' = timers \ {t}
  /\ location' = "dashboard.html"
  /\ UNCHANGED <<storage, loaded, inflight, opsLeft, homeVars, exHome>>

\* the home page when its script has run
InitHome(sto, host, budget) ==
  /\ location = "home.html"
  /\ storage = sto
  /\ configDefined = TRUE
  /\ token = None
  /\ loaded = FALSE
  /\ inflight = <<>>
  /\ joins = [g \in JoinIds |-> IdleJoin]
  /\ timers = {}
  /\ alerts = {}
  /\ opsLeft = budget
  /\ hostname = host
  /\ page = "home"
  /\ apiUrl = NoApiUrl
  /\ InitPanels
  /\ welcomeText = None
  /\ statsView = [shown |-> FALSE, stats |-> NoStats, goalProgress |-> 0]
  /\ mealsView = [shown |-> FALSE, meals |-> <<>>]

NoStorage == [k \in StorageKeys |-> None]

NextHome ==
  \/ HomeDOMContentLoaded
  \/ showRegister
  \/ showLogin
  \/ closeAuthModal
  \/ \E d \in RegisterInputs : fillRegisterForm(d)
  \/ \E d \in LoginInputs : fillLoginForm(d)
  \/ registerSubmit
  \/ \E i \in 1..MaxInflight, out \in Outcomes, err \in ServerErrors :
       RegisterResponse(i, out, err)
  \/ loginSubmit
  \/ \E i \in 1..MaxInflight, out \in Outcomes, b \in LoginBodies \cup {NoLoginBody},
        err \in ServerErrors : LoginResponse(i, out, b, err)
  \/ \E t \in timers : HideMessageFires(t)
  \/ \E t \in timers : ShowLoginFires(t)
  \/ \E t \in timers : RedirectFires(t)
  \/ Tick

\* the home page of a visitor, logged in before or not, for MaxHomeOps user operations
SpecHome ==
  /\ \E sto \in {NoStorage, LoggedIn}, host \in Hosts : InitHome(sto, host, MaxHomeOps)
  /\ [][NextHome]_vars

(* ---------------------------- the users page --------------------------- *)
exUsers == <<configDefined, token, loaded, joins, timers, dashboardVars, envVars,
             homeVars>>
Users == {<<>>, <<"u1">>}
MustLogin == "You must login first!"
ErrorLoadingUsers == "Error loading users"

\* the login form's submit listener up to the fetch
usersLoginSubmit ==
  /\ Spend("users")
  /\ Len(inflight) < MaxInflight
  /\ inflight' = Append(inflight, HomeCall("usersLogin", EmptyLogin))
  /\ UNCHANGED <<location, storage, alerts, usersVars, exUsers>>

\* the login form's submit listener after the fetch: nothing catches a failed fetch
UsersLoginResponse(i, out, hasToken) ==
  /\ i \in DOMAIN inflight /\ inflight[i].site = "usersLogin"
  /\ out = "ok" \/ ~hasToken
  /\ inflight' = RemoveAt(inflight, i)
  /\ storage' = IF out = "ok"
                THEN [storage EXCEPT ![LegacyTokenKey] = IF hasToken THEN "jwt"
                                                         ELSE "undefined"]
                ELSE storage
  /\ usersLoginMessage' =
       IF out = "ok" THEN SuccessMessage("Login successful! JWT Token saved.")
       ELSE IF out = "neterr" THEN usersLoginMessage
       ELSE ErrorMessage("Error: Unknown error")
  /\ UNCHANGED <<location, alerts, opsLeft, usersBtn, usersList, exUsers>>

\* the click listener of #loadUsersBtn up to the fetch, which sends 'Bearer ' + token
loadUsers ==
  /\ ~usersBtn.disabled
  /\ Spend("users")
  /\ IF storage[LegacyTokenKey] \in {None, ""}
     THEN /\ alerts' = alerts \cup {MustLogin}
          /\ UNCHANGED <<inflight, usersBtn>>
     ELSE /\ Len(inflight) < MaxInflight
          /\ usersBtn' = [text |-> "Loading...", disabled |-> TRUE]
          /\ inflight' = Append(inflight,
               [site |-> "loadUsers", arg |-> NoArg, body |-> NoBody,
                tok |-> storage[LegacyTokenKey], by |-> "loadUsers", grp |-> 0])
          /\ alerts' = alerts
  /\ UNCHANGED <<location, storage, usersList, usersLoginMessage, exUsers>>

\* the click listener after the fetch: a failed fetch leaves the button as it is; a
\* response that is not ok, a 401 included, is alerted
LoadUsersResponse(i, out, users) ==
  /\ i \in DOMAIN inflight /\ inflight[i].site = "loadUsers"
  /\ out = "ok" \/ users = <<>>
  /\ inflight' = RemoveAt(inflight, i)
  /\ usersBtn' = IF out = "neterr" THEN usersBtn
                 ELSE [text |-> "Load Users", disabled |-> FALSE]
  /\ usersList' = IF out = "ok"
                  THEN [kind |-> IF users = <<>> THEN "No users found." ELSE "cards",
                        users |-> users]
                  ELSE usersList
  /\ alerts' = IF out \in {"fail", "unauth"} THEN alerts \cup {ErrorLoadingUsers}
               ELSE alerts
  /\ UNCHANGED <<location, storage, opsLeft, usersLoginMessage, exUsers>>

(* ----------------------------- the whole client ------------------------ *)
\* local storage as a login on the users page leaves it
LegacyLoggedIn == [k \in StorageKeys |-> IF k = LegacyTokenKey THEN "jwt" ELSE None]

\* the users page when its script has run
InitUsers(sto, budget) ==
  /\ location = "index.html"
  /\ storage = sto
  /\ configDefined = FALSE
  /\ token = None
  /\ loaded = TRUE
  /\ inflight = <<>>
  /\ joins = [g \in JoinIds |-> IdleJoin]
  /\ timers = {}
  /\ alerts = {}
  /\ opsLeft = budget
  /\ hostname = "localhost"
  /\ page = "users"
  /\ apiUrl = NoApiUrl
  /\ InitPanels
  /\ welcomeText = None
  /\ statsView = [shown |-> FALSE, stats |-> NoStats, goalProgress |-> 0]
  /\ mealsView = [shown |-> FALSE, meals |-> <<>>]

\* each page on its own: the home page and the users page from the moment their script
\* has run, for MaxOps user operations; the dashboard, with and without CONFIG, from
\* the moment its script has run, for the page load and MaxOps - 2 operations, and
\* from the loaded page for MaxOps operations
Init ==
  \/ \E sto \in {NoStorage, LoggedIn} : InitHome(sto, "localhost", MaxOps)
  \/ InitDashboard(LoggedIn, TRUE, MaxOps - 2)
  \/ InitDashboard(LegacyLoggedIn, FALSE, MaxOps - 2)
  \/ InitLoaded(MaxOps)
  \/ \E sto \in {NoStorage, LegacyLoggedIn} : InitUsers(sto, MaxOps)

\* what the responses carry where several values make no difference to the session
OneAnalysis == {NoAnalysis}
OneShape == {Shape(TRUE, TRUE, FALSE, <<ServingA>>)}
OneProfile == {pr \in ServerProfiles : pr.goals.dailyCalories # 0}
OneLoginBody == {b \in LoginBodies : b.hasUser /\ b.token = "jwt"}

Next ==
  \/ DOMContentLoaded
  \/ \E m \in Meals, c \in BOOLEAN : deleteMeal(m, c)
  \/ \E i \in 1..MaxInflight, out \in Outcomes : DeleteMealResponse(i, out)
  \/ \E i \in 1..MaxInflight, out \in Outcomes, d \in ShownStats \cup {NoStats} :
       StatsResponse(i, out, d)
  \/ \E i \in 1..MaxInflight, out \in Outcomes : ProfileResponse(i, out, NoProfile)
  \/ \E i \in 1..MaxInflight, out \in Outcomes, d \in ShownMeals \cup {<<>>} :
       MealsResponse(i, out, d)
  \/ \E p \in {"week"} : showNutritionAnalysis(p)
  \/ \E i \in 1..MaxInflight, out \in Outcomes, d \in OneAnalysis :
       LoadAnalysisResponse(i, out, d)
  \/ closeAnalysisModal
  \/ showAddMealModal
  \/ \E v \in OneQuery : FoodSearchInput(v)
  \/ \E t \in timers : SearchTimerFires(t)
  \/ \E i \in 1..MaxInflight, out \in Outcomes : SearchFoodResponse(i, out, TRUE)
  \/ \E k \in 1..2 : selectFood(k)
  \/ \E i \in 1..MaxInflight, out \in Outcomes, sh \in OneShape \cup {NoDetails} :
       SelectFoodResponse(i, out, sh)
  \/ addMealSubmit
  \/ \E i \in 1..MaxInflight, out \in Outcomes : AddMealResponse(i, out, "")
  \/ closeModal
  \/ \E t \in timers : CloseModalTimerFires(t)
  \/ showProfile
  \/ \E i \in 1..MaxInflight, out \in Outcomes, pr \in OneProfile :
       LoadProfileResponse(i, out, pr)
  \/ closeProfileModal
  \/ calculateGoals
  \/ saveProfile
  \/ \E i \in 1..MaxInflight, out \in Outcomes, pr \in OneProfile :
       SaveProfileResponse(i, out, out = "ok", pr, "")
  \/ showGoalSetting
  \/ \E p \in Panels, via \in {"analyze", "refresh"} : runAnalysis(p, via)
  \/ \E i \in 1..MaxInflight, out \in Outcomes : AnalysisResponse(i, out, out = "ok", FALSE)
  \/ logout
  \/ HomeDOMContentLoaded
  \/ showRegister
  \/ showLogin
  \/ closeAuthModal
  \/ \E d \in {[name |-> "Ann", email |-> "ann@x", password |-> P6]} : fillRegisterForm(d)
  \/ \E d \in {[email |-> "ann@x", password |-> P6]} : fillLoginForm(d)
  \/ registerSubmit
  \/ \E i \in 1..MaxInflight, out \in Outcomes : RegisterResponse(i, out, "")
  \/ loginSubmit
  \/ \E i \in 1..MaxInflight, out \in Outcomes, b \in OneLoginBody \cup {NoLoginBody} :
       LoginResponse(i, out, b, "")
  \/ \E t \in timers : HideMessageFires(t)
  \/ \E t \in timers : ShowLoginFires(t)
  \/ \E t \in timers : RedirectFires(t)
  \/ usersLoginSubmit
  \/ \E i \in 1..MaxInflight, out \in Outcomes : UsersLoginResponse(i, out, out = "ok")
  \/ loadUsers
  \/ \E i \in 1..MaxInflight, out \in Outcomes, us \in Users : LoadUsersResponse(i, out, us)
  \/ Tick

Spec == Init /\ [][Next]_vars

(* ============================ properties =============================== *)
Count(s, site) == Cardinality(CallsOf(s, site))
CountBy(s, site, by) == Cardinality({i \in DOMAIN s : s[i].site = site /\ s[i].by = by})

\* the instances on a canvas that were constructed and not destroyed
Displayed(canvas) == {k \in DOMAIN charts : charts[k].canvas = canvas /\ ~charts[k].destroyed}
HandleOk(h, canvas) == h = 0 \/ Displayed(canvas) = {h}

\* C2: each chart handle is null or refers to the chart displayed on its canvas, never
\* to a destroyed chart.
C2_HandleNullOrDisplayed ==
  HandleOk(macrosChart, "macrosChart") /\ HandleOk(caloriesChart, "caloriesChart")

\* C3: a declined confirm issues no request; a DELETE is issued only by a confirmed
\* deleteMeal; statistics and today's meals are re-fetched on behalf of deleteMeal only
\* in the step that handles a successful DELETE response.
C3_DeleteAndRefetchOnlyAfterConfirm ==
  [][/\ \A m \in Meals : deleteMeal(m, FALSE) => inflight' = inflight
     /\ Count(inflight', "deleteMeal") > Count(inflight, "deleteMeal")
          => /\ \E m \in Meals : deleteMeal(m, TRUE)
             /\ Count(inflight', "deleteMeal") = Count(inflight, "deleteMeal") + 1
     /\ \A site \in {"stats", "profile", "meals"} :
          CountBy(inflight', site, "deleteMeal") > CountBy(inflight, site, "deleteMeal")
            => \E i \in DOMAIN inflight : DeleteMealResponse(i, "ok")
    ]_vars

\* a confirmed delete was answered 2xx and its re-fetch is in flight
C3_Witness ==
  /\ \E i \in DOMAIN inflight : inflight[i].site = "meals" /\ inflight[i].by = "deleteMeal"
  /\ \E i \in DOMAIN inflight : inflight[i].site = "stats" /\ inflight[i].by = "deleteMeal"

\* the step handles a 401 response to the call inflight[i]
Answered401(i) ==
  \/ StatsResponse(i, "unauth", NoStats)
  \/ ProfileResponse(i, "unauth", NoProfile)
  \/ MealsResponse(i, "unauth", <<>>)
  \/ DeleteMealResponse(i, "unauth")
  \/ LoadAnalysisResponse(i, "unauth", NoAnalysis)
  \/ SearchFoodResponse(i, "unauth", TRUE)
  \/ SelectFoodResponse(i, "unauth", NoDetails)
  \/ AddMealResponse(i, "unauth", "")
  \/ \E pr \in ServerProfiles : LoadProfileResponse(i, "unauth", pr)
  \/ \E pr \in ServerProfiles : SaveProfileResponse(i, "unauth", FALSE, pr, "")
  \/ AnalysisResponse(i, "unauth", FALSE, FALSE)
  \/ LoadUsersResponse(i, "unauth", <<>>)

\* C1: whenever a call that sent the bearer token is answered 401, the token it sent is
\* no longer in local storage afterwards and the page navigates to the login page.
C1_Every401ForcesLogout ==
  [][\A i \in DOMAIN inflight :
       (inflight[i].tok # None /\ Answered401(i))
         => /\ \A k \in StorageKeys : storage'[k] # inflight[i].tok
            /\ location' = "index.html"
    ]_vars

\* C7: on the dashboard the session token entry changes only by being removed, and only
\* in logout() or in the handling of a 401 response.
C7_TokenKeptUntilLogoutOr401 ==
  [][(page = "dashboard" /\ storage'[TOKEN_KEY] # storage[TOKEN_KEY])
       => /\ storage'[TOKEN_KEY] = None
          /\ logout \/ \E i \in DOMAIN inflight : Answered401(i)
    ]_vars

\* the profile was saved and a meal could not be deleted, and the token is still there
C7_Witness ==
  /\ page = "dashboard"
  /\ storage[TOKEN_KEY] = "jwt"
  /\ profileMessage.text = ProfileSaved
  /\ ErrorDeletingMeal \in alerts

\* C4 as stated: a submission of the registration form with non-empty name, email and
\* a password of at least 6 characters issues exactly one POST to /register, and the
\* handling of its response shows a success message.
ValidRegistration(data) ==
  data.name # "" /\ data.email # "" /\ Len(data.password) >= MinPasswordLength
OnePostPerValidSubmission ==
  /\ (registerSubmit /\ ValidRegistration(registerForm))
       => inflight' = Append(inflight, HomeCall("register", registerForm))
  /\ Count(inflight', "register") > Count(inflight, "register")
       => registerSubmit /\ Count(inflight', "register") = Count(inflight, "register") + 1
C4_OnePostAndSuccessMessage ==
  [][/\ OnePostPerValidSubmission
     /\ \A i \in DOMAIN inflight, out \in Outcomes, err \in ServerErrors :
          RegisterResponse(i, out, err)
            => registerMessage' = SuccessMessage(RegistrationSuccessful)
    ]_vars

\* C4 as amended: the submission issues exactly one POST to /register; the success
\* message is shown when the response is 2xx, an error message when it is not or when
\* the request fails.
C4_OnePostAndMessageByOutcome ==
  [][/\ OnePostPerValidSubmission
     /\ \A i \in DOMAIN inflight, out \in Outcomes, err \in ServerErrors :
          RegisterResponse(i, out, err)
            => IF out = "ok"
               THEN registerMessage' = SuccessMessage(RegistrationSuccessful)
               ELSE registerMessage'.class = "message error"
    ]_vars

\* valid data were posted once, the server refused them, and the error is shown
C4_Witness ==
  /\ ValidRegistration(registerForm)
  /\ Count(inflight, "register") = 0
  /\ registerMessage = ErrorMessage("Email already registered")

\* C6: the bearer token and the user-preferences blob change in local storage only in
\* the handling of a 2xx /login response, and that handling writes both of them.
C6_TokenAndPrefsWrittenTogether ==
  [][/\ (storage'[JWT_TOKEN] # storage[JWT_TOKEN]
           \/ storage'[USER_PREFERENCES] # storage[USER_PREFERENCES])
          => \E i \in DOMAIN inflight, b \in LoginBodies : LoginResponse(i, "ok", b, "")
     /\ \A i \in DOMAIN inflight, b \in LoginBodies :
          LoginResponse(i, "ok", b, "")
            => /\ storage'[JWT_TOKEN] = StoredToken(b)
               /\ storage'[USER_PREFERENCES] = PrefsBlob
    ]_vars

SearchTimers(ts) == {t \in ts : t.kind = "search"}

\* C5: a successful details response populates the four preview fields from the first
\* entry of servings.serving when that is an array with a first entry and from
\* servings.serving when it is one object; a missing value is shown as '0'.
Shown(x, field) == (x = Undefined => field = <<"0">>) /\ (Truthy(x) => field = x)
C5_PreviewFromFirstServing ==
  [][\A i \in DOMAIN inflight, sh \in DetailShapes :
       (SelectFoodResponse(i, "ok", sh) /\ sh.hasFood /\ sh.hasServings /\ sh.serving # <<>>)
         => LET first == sh.serving[1] IN
              /\ preview'.display = "block"
              /\ Shown(first.calories, preview'.calories)
              /\ Shown(first.protein, preview'.protein)
              /\ Shown(first.carbohydrate, preview'.carbs)
              /\ Shown(first.fat, preview'.fat)
    ]_vars

\* the preview shows the first of two servings, its missing protein as '0'
C5_Witness ==
  /\ selectedFood.isArray /\ Len(selectedFood.serving) = 2
  /\ selectedFood.serving[1] = ServingB
  /\ preview.calories = ServingB.calories
  /\ preview.protein = <<"0">>
  /\ preview.fat = <<"0">>

\* C8: after a successful add-meal submission, and after closeModal, selectedFood is
\* null.
C8_SelectedFoodNullAfterSubmitOrClose ==
  [][((\E i \in DOMAIN inflight : AddMealResponse(i, "ok", ""))
        \/ closeModal \/ (\E t \in timers : CloseModalTimerFires(t)))
       => selectedFood'.null
    ]_vars

\* C9 as stated: when the last of several food searches in flight resolves, the list
\* displayed is the list of that response, the foods found for its query.
C9_LastResponseWins ==
  [][\A i \in DOMAIN inflight, out \in Outcomes, f \in BOOLEAN :
       (SearchFoodResponse(i, out, f) /\ Count(inflight', "searchFood") = 0)
         => suggestions' = displayFoodSuggestions(IF f THEN Catalog(inflight[i].arg)
                                                  ELSE <<>>)
    ]_vars

\* C9 as amended: every successful search response replaces the list by its own foods,
\* whatever the order of the queries; a response that is not 2xx, and a failed request,
\* leave the list as it is.
C9_LastSuccessfulResponseWins ==
  [][\A i \in DOMAIN inflight, out \in Outcomes, f \in BOOLEAN :
       SearchFoodResponse(i, out, f)
         => IF out = "ok"
            THEN suggestions' = displayFoodSuggestions(IF f THEN Catalog(inflight[i].arg)
                                                       ELSE <<>>)
            ELSE suggestions' = suggestions
    ]_vars

\* both searches are answered, the box holds the query typed last, and the list shown
\* is the one of the query typed first, whose response resolved last
C9_Witness ==
  /\ Count(inflight, "searchFood") = 0
  /\ SearchTimers(timers) = {}
  /\ foodSearch = QueryBa
  /\ suggestions = displayFoodSuggestions(Catalog(QueryAp))

\* C10: at most one debounce timer is pending, and it is the one searchTimeout holds;
\* an input event leaves no timer but its own, set for 500 ms with the trimmed value,
\* and none when that is shorter than 2 characters; a search request is issued only by
\* the pending timer once its 500 ms have run, one request, for that timer's query.
C10_OneTimer ==
  /\ Cardinality(SearchTimers(timers)) <= 1
  /\ \A t \in SearchTimers(timers) : t.id = searchTimeout /\ Len(t.arg) >= 2
  /\ \A i \in CallsOf(inflight, "searchFood") : Len(inflight[i].arg) >= 2

C10_Debounce ==
  /\ []C10_OneTimer
  /\ [][/\ \A v \in Typed :
             FoodSearchInput(v)
               => /\ Len(Trim(v)) < 2 => SearchTimers(timers') = {}
                  /\ Len(Trim(v)) >= 2 =>
                       \E id \in TimerIds :
                         SearchTimers(timers') = {Timer(id, "search", Trim(v), DebounceMs)}
                  /\ inflight' = inflight
        /\ Count(inflight', "searchFood") > Count(inflight, "searchFood")
             => \E t \in SearchTimers(timers) :
                  /\ t.due = 0
                  /\ SearchTimerFires(t)
                  /\ SearchTimers(timers') = {}
                  /\ inflight' = Append(inflight, Call("searchFood", t.arg, "searchFood", 0))
       ]_vars

\* the request of a debounced query is in flight: the trimmed content of the box
C10_Witness ==
  /\ foodSearch = <<Space, "a", "p">>
  /\ SearchTimers(timers) = {}
  /\ \E i \in DOMAIN inflight : inflight[i].site = "searchFood" /\ inflight[i].arg = QueryAp

\* the step handles the response `out` to the call inflight[i], whatever it carries
Answered(i, out) ==
  \/ \E d \in StatsResults : StatsResponse(i, out, d)
  \/ \E d \in ProfileResults : ProfileResponse(i, out, d)
  \/ \E d \in MealLists : MealsResponse(i, out, d)
  \/ DeleteMealResponse(i, out)
  \/ \E d \in AnalysisResults : LoadAnalysisResponse(i, out, d)
  \/ \E f \in BOOLEAN : SearchFoodResponse(i, out, f)
  \/ \E sh \in DetailShapes : SelectFoodResponse(i, out, sh)
  \/ \E err \in AddErrors : AddMealResponse(i, out, err)
  \/ \E pr \in ServerProfiles : LoadProfileResponse(i, out, pr)
  \/ \E h \in BOOLEAN, pr \in ServerProfiles : SaveProfileResponse(i, out, h, pr, "")
  \/ \E s \in BOOLEAN, f \in BOOLEAN : AnalysisResponse(i, out, s, f)
  \/ \E err \in ServerErrors : RegisterResponse(i, out, err)
  \/ \E b \in LoginBodies \cup {NoLoginBody}, err \in ServerErrors :
       LoginResponse(i, out, b, err)
  \/ \E h \in BOOLEAN : UsersLoginResponse(i, out, h)
  \/ \E us \in Users : LoadUsersResponse(i, out, us)

\* the call sites: one per endpoint and operation
Sites == {"stats", "profile", "meals", "deleteMeal", "loadAnalysis", "searchFood",
          "selectFood", "addMeal", "loadProfile", "saveProfile", "register", "login",
          "usersLogin", "loadUsers"} \cup Panels

\* C11: no step sends more than one request to an endpoint; the step that handles a
\* response never sends the answered request again, and when the response is not 2xx
\* or the request failed it sends no request at all.
C11_NothingRetried ==
  [][/\ \A site \in Sites : Count(inflight', site) <= Count(inflight, site) + 1
     /\ \A i \in DOMAIN inflight, out \in Outcomes :
          Answered(i, out)
            => /\ Count(inflight', inflight[i].site) = Count(inflight, inflight[i].site) - 1
               /\ out # "ok" => inflight' = RemoveAt(inflight, i)
    ]_vars

\* a delete was refused or failed, the error is alerted, and nothing is in flight
C11_Witness ==
  /\ page = "dashboard"
  /\ ErrorDeletingMeal \in alerts
  /\ inflight = <<>>

\* an error is on display: an alert was raised, or an inline message, a results panel
\* or the preview shows an error
ErrorOnDisplay(al, meal, prof, reg, login, usersLogin, results, prev) ==
  \/ al # {}
  \/ \E m \in {meal, reg, login, usersLogin} : m.class = "message error" /\ m.text # ""
  \/ prof.class = "message error" /\ prof.text # ""
  \/ \E p \in Panels : results[p].content \in {"connection error", "failed"}
  \/ prev.calories = ErrorText

\* C12: whenever a request fails with a network exception, the step that handles the
\* failure leaves an error on display, as an alert or as an inline message.
C12_NetworkErrorShown ==
  [][\A i \in DOMAIN inflight :
       Answered(i, "neterr")
         => ErrorOnDisplay(alerts', mealMessage', profileMessage', registerMessage',
                           loginMessage', usersLoginMessage', aiResults', preview')
    ]_vars

\* the page-load step puts the three requests in flight together
LoadIssuesAllThree ==
  DOMContentLoaded
    => \E g \in JoinIds : inflight' = inflight \o Refetch("load", g)

\* today's meals are rendered by their own 2xx response, whatever became of the others
MealsRendered ==
  \A i \in DOMAIN inflight, d \in MealLists :
    MealsResponse(i, "ok", d) => mealsView' = [shown |-> TRUE, meals |-> d]

\* the statistics of a 2xx response are rendered in the step that settles the second of
\* the statistics and the profile request, whether or not the profile request succeeded
StatsRendered ==
  /\ \A i \in DOMAIN inflight, d \in StatsResults :
       (StatsResponse(i, "ok", d) /\ joins[inflight[i].grp].profile.st # "pending")
         => statsView'.shown /\ statsView'.stats = d
  /\ \A i \in DOMAIN inflight, out \in Outcomes, d \in ProfileResults :
       (ProfileResponse(i, out, d) /\ joins[inflight[i].grp].stats.st = "ok")
         => statsView'.shown /\ statsView'.stats = joins[inflight[i].grp].stats.result

\* C13 as stated: the three requests are issued together on page load, and each 2xx
\* response is rendered into a container of its own: the statistics counters, the meal
\* list, and for the profile the calculated goals of the profile panel; a failed
\* profile or meals request does not keep the statistics from being rendered.
C13_EachRenderedInItsContainer ==
  [][/\ LoadIssuesAllThree
     /\ MealsRendered
     /\ StatsRendered
     /\ \A i \in DOMAIN inflight, d \in ProfileResults :
          (ProfileResponse(i, "ok", d) /\ d.dailyCalories # 0)
            => /\ calculatedGoals'.display = "block"
               /\ calculatedGoals'.goals.dailyCalories = d.dailyCalories
    ]_vars

\* C13 as amended: the three requests are issued together on page load; the meals are
\* rendered by their own 2xx response and the statistics once the statistics and the
\* profile request have both settled, a failed profile or meals request not preventing
\* it; the profile response is rendered nowhere, it only enters the goal progress shown
\* with the statistics.
C13_StatsAndMealsRendered ==
  [][/\ LoadIssuesAllThree
     /\ MealsRendered
     /\ StatsRendered
     /\ \A i \in DOMAIN inflight, out \in Outcomes, d \in ProfileResults :
          ProfileResponse(i, out, d)
            => /\ UNCHANGED <<profileVars, mealsView>>
               /\ statsView' # statsView
                    => statsView'.goalProgress =
                         GoalProgress(joins[inflight[i].grp].stats,
                                      Slot(IF out = "ok" THEN "ok" ELSE "notok", d))
    ]_vars

\* the page is loaded and its three calls are answered: the statistics are shown with
\* the goal progress of the profile, the meals, whose request failed, are not
C13_Witness ==
  /\ loaded /\ inflight = <<>>
  /\ statsView.shown /\ statsView.stats.total_calories = 1500
  /\ statsView.goalProgress = 75
  /\ ~mealsView.shown

\* the config resolver on a page of each kind of host, getApiUrl applied to every
\* endpoint of at most MaxEndpointLen characters
SpecConfig ==
  /\ \E host \in Hosts : InitHome(NoStorage, host, 0)
  /\ [][NextConfig]_vars

\* the endpoint without its leading '/', if it has one
WithoutLeadingSlash(endpoint) == IF StartsWithSlash(endpoint) THEN Tail(endpoint) ELSE endpoint

\* C14: ENVIRONMENT is 'development' exactly for the hostnames localhost and 127.0.0.1
\* and 'production' otherwise; API_BASE_URL and FRONTEND_URL are the local URLs exactly
\* in development; exactly one of isLocal() and isProduction() is true; getApiUrl
\* returns the base URL, one '/', and the endpoint less its leading '/'.
C14_ConfigFromHostname ==
  LET c == CONFIG(hostname)
      development == hostname \in {"localhost", "127.0.0.1"}
  IN /\ c.ENVIRONMENT = IF development THEN "development" ELSE "production"
     /\ c.API_BASE_URL = IF development THEN LocalApiUrl ELSE RemoteApiUrl
     /\ c.FRONTEND_URL = IF development THEN LocalFrontendUrl ELSE RemoteFrontendUrl
     /\ LocalApiUrl # RemoteApiUrl /\ LocalFrontendUrl # RemoteFrontendUrl
     /\ isLocal(hostname) # isProduction(hostname)
     /\ c.API_BASE_URL[Len(c.API_BASE_URL)] # "/"
     /\ apiUrl # NoApiUrl
          => apiUrl.url = c.API_BASE_URL \o <<"/">> \o WithoutLeadingSlash(apiUrl.endpoint)

\* on 127.0.0.1, getApiUrl of an endpoint without a leading '/' and of the same
\* endpoint with one gave the same URL under the local base
C14_Witness ==
  /\ hostname = "127.0.0.1"
  /\ apiUrl # NoApiUrl
  /\ apiUrl.endpoint = <<"a", "/", "a">>
  /\ apiUrl.url = getApiUrl(hostname, <<"/", "a", "/", "a">>)
  /\ apiUrl.url = LocalApiUrl \o <<"/", "a", "/", "a">>

\* C19: the feature flags and the default timeout depend on the environment only: a
\* hostname of the same ENVIRONMENT as the page's has the same DEBUG_MODE, ANALYTICS,
\* SERVICE_WORKER and default timeout.
C19_FlagsByEnvironment ==
  \A h \in Hosts :
    CONFIG(h).ENVIRONMENT = CONFIG(hostname).ENVIRONMENT
      => /\ CONFIG(h).FEATURES = CONFIG(hostname).FEATURES
         /\ CONFIG(h).TIMEOUTS.DEFAULT = CONFIG(hostname).TIMEOUTS.DEFAULT

\* the instances constructed on a canvas, destroyed or not
OnCanvas(cs, canvas) == {k \in DOMAIN cs : cs[k].canvas = canvas}
Canvases == {"macrosChart", "caloriesChart"}

\* C15: at any time at most one chart instance per canvas is not destroyed, and a step
\* that constructs a chart on a canvas leaves every earlier instance of that canvas
\* destroyed.
C15_OneChartPerCanvas ==
  /\ [](\A canvas \in Canvases : Cardinality(Displayed(canvas)) <= 1)
  /\ [][\A canvas \in Canvases :
          \A k \in OnCanvas(charts', canvas) \ DOMAIN charts :
            \A old \in OnCanvas(charts, canvas) : charts'[old].destroyed
       ]_vars

\* a second chart was drawn on each canvas: the first is destroyed, the second shown
C15_Witness ==
  \A canvas \in Canvases :
    /\ Cardinality(OnCanvas(charts, canvas)) = 2
    /\ Cardinality(Displayed(canvas)) = 1

(* -------------------------- the goal calculator ------------------------ *)
T65 == <<"6", "5">>
T55_5 == <<"5", "5", ".", "5">>
\* the forms calculateGoals is run on: every gender, activity level and weekly goal of
\* one person, other ages and weights, and each personal field missing or zero
GoalInputs ==
  {FullProfile(g, al, wk) :
     g \in {"male", "female", "other"},
     al \in {"sedentary", "light", "moderate", "active", "very_active", "custom"},
     wk \in {<<"0">>, <<"-", "0", ".", "5">>, <<"0", ".", "5">>}}
  \cup {[FullProfile("male", "moderate", <<>>) EXCEPT !.age = T65, !.weight = T55_5]}
  \cup {[FullProfile("female", "light", <<"0">>) EXCEPT !.age = a] : a \in {<<>>, <<"0">>}}
  \cup {[FullProfile("female", "light", <<"0">>) EXCEPT !.weight = w] : w \in {<<>>, <<"0">>}}
  \cup {[FullProfile("female", "light", <<"0">>) EXCEPT !.height = h] : h \in {<<>>, <<"0">>}}
  \cup {FullProfile("", "light", <<"0">>), FullProfile("male", "", <<"0">>)}

\* the profile panel: opening it, the stored profile arriving, filling the forms and
\* calculating the goals
NextGoals ==
  \/ showProfile
  \/ \E i \in 1..MaxInflight, out \in Outcomes, pr \in ServerProfiles :
       LoadProfileResponse(i, out, pr)
  \/ \E d \in GoalInputs : fillProfileForm(d)
  \/ calculateGoals
  \/ closeProfileModal

SpecGoals == InitLoaded(MaxOps + 1) /\ [][NextGoals]_vars

\* the numbers of the formula, in the units of the form: age and height in whole units,
\* weight and weekly goal in tenths
AgeOf(f) == ParseIntOr0(f.age) \div 10
HeightOf(f) == ParseIntOr0(f.height) \div 10
WeightTenthsOf(f) == ParseFloatOr0(f.weight)
WeeklyTenthsOf(f) == SignedTenths(f.weeklyGoal)

\* 100 * BMR, BMR = 10*weight + 6.25*height - 5*age + 5 for 'male', - 161 otherwise
Bmr100(f) ==
  100 * WeightTenthsOf(f) + 625 * HeightOf(f) - 500 * AgeOf(f)
    + (IF f.gender = "male" THEN 500 ELSE 0 - 16100)
\* 1000 * m
M1000(f) ==
  IF f.activityLevel = "sedentary" THEN 1200
  ELSE IF f.activityLevel = "light" THEN 1375
  ELSE IF f.activityLevel = "moderate" THEN 1550
  ELSE IF f.activityLevel = "active" THEN 1725
  ELSE IF f.activityLevel = "very_active" THEN 1900
  ELSE 1200
\* round(BMR * m + weeklyGoal * 7700 / 7)
ClaimedCalories(f) == RoundDiv(Bmr100(f) * M1000(f) + WeeklyTenthsOf(f) * 11000000, 100000)
ClaimedGoals(f) ==
  [dailyCalories |-> ClaimedCalories(f),
   dailyProtein |-> RoundDiv(25 * ClaimedCalories(f), 400),
   dailyCarbs |-> RoundDiv(45 * ClaimedCalories(f), 400),
   dailyFat |-> RoundDiv(30 * ClaimedCalories(f), 900)]
AllFivePresent(f) ==
  /\ AgeOf(f) # 0 /\ WeightTenthsOf(f) # 0 /\ HeightOf(f) # 0
  /\ f.gender # "" /\ f.activityLevel # ""

\* C16: calculateGoals on a form whose five personal fields are present and non-zero
\* displays the goals of the formula; on any other form it shows the error message and
\* leaves the displayed goals as they are.
C16_GoalsByFormula ==
  [][calculateGoals
       => IF AllFivePresent(profileForm)
          THEN /\ calculatedGoals'.display = "block"
               /\ calculatedGoals'.goals = ClaimedGoals(profileForm)
          ELSE /\ profileMessage'.class = "message error"
               /\ profileMessage'.text = FillPersonalFirst
               /\ calculatedGoals' = calculatedGoals
    ]_vars

\* the goals of a sedentary woman of 30, 70 kg and 175 cm who wants to lose half a
\* kilogram a week are on display: BMR 1482.75, 1779.3 - 550 = 1229.3 kcal
C16_Witness ==
  /\ profileForm = FullProfile("female", "sedentary", <<"-", "0", ".", "5">>)
  /\ calculatedGoals = [display |-> "block",
                        goals |-> [dailyCalories |-> 1229, dailyProtein |-> 77,
                                   dailyCarbs |-> 138, dailyFat |-> 41]]

\* C17: a registration submitted with an empty name, email or password, or with a
\* password of fewer than 6 characters, and a login submitted with an empty email or
\* password, send no request and show an error message; any other submission sends its
\* request, a password of exactly 6 characters included.
C17_ValidationBlocksRequest ==
  [][/\ registerSubmit
          => IF ValidRegistration(registerForm)
             THEN inflight' = Append(inflight, HomeCall("register", registerForm))
             ELSE /\ inflight' = inflight
                  /\ registerMessage'.class = "message error"
                  /\ registerMessage'.text \in {FillInAllFields, PasswordTooShort}
     /\ loginSubmit
          => IF loginForm.email # "" /\ loginForm.password # <<>>
             THEN inflight' = Append(inflight, HomeCall("login", loginForm))
             ELSE /\ inflight' = inflight
                  /\ loginMessage' = ErrorMessage(EnterBoth)
    ]_vars

\* a registration with a 5-character password was submitted: the error is shown and
\* no request is in flight
C17_Witness ==
  /\ registerForm.name # "" /\ registerForm.email # ""
  /\ Len(registerForm.password) = MinPasswordLength - 1
  /\ registerMessage = ErrorMessage(PasswordTooShort)
  /\ inflight = <<>>

\* the goal progress specified for a statistics result and a settled profile call
ClaimedProgress(stats, profileOk, profile) ==
  IF profileOk /\ profile.dailyCalories # 0
  THEN Min({RoundDiv(100 * stats.total_calories, profile.dailyCalories), 100})
  ELSE stats.goal_progress

\* C18: the step that settles the second of the two calls of loadMealStatsWithGoals
\* renders, when the statistics call was answered 2xx, the statistics with the
\* personalised goal progress, capped at 100, if the profile call was answered 2xx with
\* a non-zero dailyCalories and with the server's goal_progress otherwise; it renders
\* nothing when the statistics call failed, and nothing is rendered before both calls
\* have settled.
C18_GoalProgressShown ==
  [][/\ \A i \in DOMAIN inflight, out \in Outcomes, d \in StatsResults :
          StatsResponse(i, out, d)
            => LET pf == joins[inflight[i].grp].profile IN
                 IF out = "ok" /\ pf.st # "pending"
                 THEN statsView' = [shown |-> TRUE, stats |-> d,
                                    goalProgress |->
                                      ClaimedProgress(d, pf.st = "ok", pf.result)]
                 ELSE statsView' = statsView
     /\ \A i \in DOMAIN inflight, out \in Outcomes, d \in ProfileResults :
          ProfileResponse(i, out, d)
            => LET st == joins[inflight[i].grp].stats IN
                 IF st.st = "ok"
                 THEN statsView' = [shown |-> TRUE, stats |-> st.result,
                                    goalProgress |->
                                      ClaimedProgress(st.result, out = "ok", d)]
                 ELSE statsView' = statsView
     /\ statsView'.goalProgress <= 100
    ]_vars

\* 1510 of 2000 kcal are shown as 76 %, not as the 50 % of the server
C18_Witness ==
  /\ statsView.shown
  /\ statsView.stats = [total_calories |-> 1510, goal_progress |-> 50]
  /\ statsView.goalProgress = 76

\* the foods a suggestion can name
KnownFoods == {Apple, Banana}
\* whether a lookup result with servings is held
HeldServings == ~selectedFood.null /\ selectedFood.hasFood /\ selectedFood.hasServings

\* C20: a submission with both hidden fields non-empty sends their name and food_id,
\* with calories, protein, carbs and fat parsed from the first serving of the held
\* lookup result when one with servings is held and without them otherwise; any other
\* submission sends the text of the search box as foodName, calories 0, no food_id
\* and no other nutrient.  A food_id in a payload comes with the name of the same food.
C20_PayloadShapes ==
  [][addMealSubmit
       => /\ Len(inflight') = Len(inflight) + 1
          /\ LET b == inflight'[Len(inflight')].body IN
               /\ inflight'[Len(inflight')].site = "addMeal"
               /\ b.mealType = mealForm.mealType /\ b.quantity = mealForm.quantity
               /\ IF selectedFoodName # <<>> /\ selectedFoodId # <<>>
                  THEN /\ b.foodName = selectedFoodName
                       /\ b.food_id = selectedFoodId
                       /\ IF HeldServings
                          THEN LET first == selectedFood.serving[1] IN
                                 /\ b.calories = Num(ParseIntOr0(first.calories))
                                 /\ b.protein = Num(ParseFloatOr0(first.protein))
                                 /\ b.carbs = Num(ParseFloatOr0(first.carbohydrate))
                                 /\ b.fat = Num(ParseFloatOr0(first.fat))
                          ELSE /\ b.calories = Absent /\ b.protein = Absent
                               /\ b.carbs = Absent /\ b.fat = Absent
                  ELSE /\ b.foodName = foodSearch
                       /\ b.food_id = <<>>
                       /\ b.calories = Num(0)
                       /\ b.protein = Absent /\ b.carbs = Absent /\ b.fat = Absent
               /\ b.food_id # <<>>
                    => \E f \in KnownFoods :
                         f.food_id = b.food_id /\ f.food_name = b.foodName
    ]_vars

\* a meal of a selected food is being added with the numbers of the first of its two
\* servings: 200 kcal, and 0 for the protein it does not state
C20_Witness ==
  \E i \in DOMAIN inflight :
    /\ inflight[i].site = "addMeal"
    /\ inflight[i].body.food_id = Apple.food_id
    /\ inflight[i].body.foodName = Apple.food_name
    /\ inflight[i].body.calories = Num(2000)
    /\ inflight[i].body.protein = Num(0)

\* the timers that will run closeModal
CloseTimers(ts) == {t \in ts : t.kind = "closeModal"}
\* the fields of the add-meal form, the search box and the hidden fields
MealFields == <<mealForm, foodSearch, selectedFoodId, selectedFoodName>>

\* C21: the submission itself clears nothing and schedules nothing; the step that
\* handles a 2xx answer to /meal/add shows the success message, clears the form, the
\* search box and the hidden fields, re-fetches statistics, profile and today's meals
\* and schedules closeModal for 2000 ms later, the modal staying open until then; the
\* step that handles any other outcome shows an error message and leaves the calls in
\* flight, the timers, the modal and the fields as they are.
C21_AddMealOutcome ==
  [][/\ addMealSubmit => UNCHANGED <<MealFields, timers, addMealModal>>
     /\ \A i \in DOMAIN inflight, out \in Outcomes, err \in AddErrors :
          AddMealResponse(i, out, err)
            => IF out = "ok"
               THEN /\ mealMessage' = MealAdded
                    /\ mealForm' = EmptyForm /\ foodSearch' = <<>>
                    /\ selectedFoodId' = <<>> /\ selectedFoodName' = <<>>
                    /\ \E g \in JoinIds :
                         inflight' = RemoveAt(inflight, i) \o Refetch("addMeal", g)
                    /\ \E t \in CloseTimers(timers') \ timers :
                         t.due = CloseModalMs /\ timers' = timers \cup {t}
                    /\ addMealModal' = addMealModal
               ELSE /\ mealMessage'.class = "message error" /\ mealMessage'.text # ""
                    /\ inflight' = RemoveAt(inflight, i)
                    /\ UNCHANGED <<MealFields, timers, addMealModal>>
     /\ \A t \in timers :
          CloseModalTimerFires(t) => t.due = 0 /\ addMealModal' = "none"
    ]_vars

\* a meal was added 2 seconds ago: the form is cleared, the modal is still open and
\* the timer that closes it is due
C21_Witness ==
  /\ mealMessage = MealAdded
  /\ mealForm = EmptyForm /\ selectedFoodId = <<>>
  /\ addMealModal = "block"
  /\ \E t \in CloseTimers(timers) : t.due = 0

(* ------------------------- the analytics panels ------------------------ *)
\* the dashboard with the three analytics operations only, started with either
\* button and answered in every way
NextAi ==
  \/ \E p \in Panels, via \in {"analyze", "refresh"} : runAnalysis(p, via)
  \/ \E i \in 1..MaxInflight, out \in Outcomes, s \in BOOLEAN, f \in BOOLEAN :
       AnalysisResponse(i, out, s, f)

SpecAi == InitLoaded(MaxOps) /\ [][NextAi]_vars

ErrorContents == {"failed", "connection error"}
ClusterAlerts == {ClusteringFailed, ClusteringError}

\* C22: an analytics run renders its results only for a successful response (2xx
\* for the diet classification, 2xx with result.success for the forecast and the
\* clustering); every other completed run renders nothing and shows an error (in
\* the panel, or in an alert for the clustering), and the refresh button of a
\* panel is revealed only by a successful run of that panel
C22_RendersOnlyOnSuccess ==
  [][/\ \A i \in DOMAIN inflight, out \in Outcomes, s \in BOOLEAN, f \in BOOLEAN :
          AnalysisResponse(i, out, s, f)
            => LET p == inflight[i].site
               IN IF out = "ok" /\ (p = "diet" \/ s)
                  THEN /\ aiResults'[p] = [display |-> "block", content |-> "results"]
                       /\ refreshBtn'[p] = "flex"
                  ELSE /\ refreshBtn' = refreshBtn
                       /\ IF p = "cluster"
                          THEN aiResults' = aiResults /\ alerts' \cap ClusterAlerts # {}
                          ELSE aiResults'[p].content \in ErrorContents
     /\ \A p \in Panels :
          refreshBtn[p] = "none" /\ refreshBtn'[p] = "flex"
            => \E i \in DOMAIN inflight, s \in BOOLEAN :
                 /\ inflight[i].site = p /\ (p = "diet" \/ s)
                 /\ AnalysisResponse(i, "ok", s, FALSE)
    ]_vars

\* a forecast answered 2xx without result.success shows its error, the clustering was
\* refused in an alert, and the diet classification is rendered with its refresh
\* button
C22_Witness ==
  /\ aiResults["lstm"].content = "failed" /\ refreshBtn["lstm"] = "none"
  /\ ClusteringFailed \in alerts /\ refreshBtn["cluster"] = "none"
  /\ aiResults["diet"].content = "results" /\ refreshBtn["diet"] = "flex"

\* the runs of panel p that were started and are not completed yet
RunsInFlight(p) == {i \in DOMAIN inflight : inflight[i].site = p}

\* C23: once every started run of an analytics operation has completed, its analyze
\* button is enabled and shows the label it had before any run started, also when
\* runs started with the refresh button overlapped
C23_ButtonRestored ==
  \A p \in Panels :
    RunsInFlight(p) = {} => ~analyzeBtn[p].disabled /\ analyzeBtn[p].html = "label"

\* the session token and the user-preferences blob are both absent from local storage
\* in the next state
SessionCleared == storage'[TOKEN_KEY] = None /\ storage'[PREFS_KEY] = None

\* C24: the forced logout of a 401 on the dashboard leaves local storage as logout()
\* does: after either, neither the session token nor the user-preferences blob is
\* stored
C24_ForcedLogoutAsLogout ==
  [][/\ logout => SessionCleared
     /\ \A i \in DOMAIN inflight :
          page = "dashboard" /\ Answered401(i) => SessionCleared
    ]_vars

\* C25: an add-meal payload that carries a food_id together with nutrition values
\* carries the values of the details lookup of that same food_id, whatever selections
\* came before and in whatever order their lookups were answered
C25_NutritionOfSameFood ==
  [][addMealSubmit /\ Len(inflight') = Len(inflight) + 1
       => LET b == inflight'[Len(inflight')].body IN
            b.food_id # <<>> /\ b.calories # Absent
              => /\ HeldServings
                 /\ selectedFood.food_id = b.food_id
    ]_vars

\* the selected-food state as closeModal leaves it
SelectionReset == selectedFood.null /\ preview.display = "none"

\* C26: once closeModal has reset the selected-food state it stays reset until the
\* user selects a food again (a details response still in flight does not set
\* selectedFood or show the preview), and the closeModal delayed by a successful add
\* leaves a selection made after that add in place
C26_ResetUntilNextSelection ==
  [][/\ SelectionReset /\ ~(\E k \in DOMAIN suggestions.foods : selectFood(k))
          => SelectionReset'
     /\ \A t \in timers :
          CloseModalTimerFires(t) /\ selectedFoodId # <<>>
            => selectedFoodId' = selectedFoodId /\ selectedFood' = selectedFood
    ]_vars

\* the message element a hide timer was set for
MessageOf(t) == IF t.arg = <<"registerMessage">> THEN registerMessage ELSE loginMessage

\* C27: the timer a success message sets clears that success message only: an error
\* or loading message written to the same element since is still displayed after
\* the timer has fired
C27_HideClearsOnlyItsMessage ==
  [][\A t \in timers :
       HideMessageFires(t) /\ MessageOf(t).class # "message success"
         => MessageOf(t)' = MessageOf(t)
    ]_vars

(* ------------------------ the session on the dashboard ----------------- *)
\* what the server answers to a call: a call without a token is refused or fails
AnswersTo(i) ==
  IF i \in DOMAIN inflight /\ inflight[i].tok = None THEN {"unauth", "neterr"}
  ELSE Outcomes

\* the dashboard opened with and without a stored token; the script goes on after it
\* has assigned window.location.href, so the page load and the user's operations
\* still run
InitSession ==
  \E sto \in {NoStorage, LoggedIn} : InitDashboard(sto, TRUE, NoLimit)

NextSession ==
  \/ DOMContentLoaded
  \/ \E m \in Meals, c \in BOOLEAN : deleteMeal(m, c)
  \/ \E i \in 1..MaxInflight : \E out \in AnswersTo(i) : DeleteMealResponse(i, out)
  \/ \E i \in 1..MaxInflight, d \in StatsResults :
       \E out \in AnswersTo(i) : StatsResponse(i, out, d)
  \/ \E i \in 1..MaxInflight, d \in ProfileResults :
       \E out \in AnswersTo(i) : ProfileResponse(i, out, d)
  \/ \E i \in 1..MaxInflight, d \in MealLists :
       \E out \in AnswersTo(i) : MealsResponse(i, out, d)

SpecSession == InitSession /\ [][NextSession]_vars

\* C28: the dashboard sends a request only while a session token is stored, and with
\* that token: none when the token was absent at page load, and none with a token
\* that a 401 has removed
C28_NoRequestWithoutToken ==
  [][page = "dashboard" /\ Len(inflight') > Len(inflight)
       => /\ storage[TOKEN_KEY] # None
          /\ inflight'[Len(inflight')].tok = storage[TOKEN_KEY]
    ]_vars

\* the trimmed content of the search box is shorter than 2 characters
BoxTooShort == Len(Trim(foodSearch)) < 2

\* C29: an input that leaves the box shorter than 2 characters empties the suggestion
\* list, and while the box stays that short the list stays empty: the response of a
\* search still in flight does not fill it again
C29_ListStaysEmpty ==
  [][/\ \A v \in Typed :
          FoodSearchInput(v) /\ Len(Trim(v)) < 2 => suggestions' = NoSuggestions
     /\ \A i \in DOMAIN inflight, out \in Outcomes, f \in BOOLEAN :
          SearchFoodResponse(i, out, f) /\ BoxTooShort /\ suggestions = NoSuggestions
            => suggestions' = NoSuggestions
    ]_vars

(* ------------------------- the automatic redirects --------------------- *)
\* the file of the page whose script is running
OwnFile ==
  IF page = "home" THEN "home.html"
  ELSE IF page = "dashboard" THEN "dashboard.html" ELSE "index.html"

\* an href other than the page's own has been assigned and not followed yet
NavigationPending == location # OwnFile
RedirectTimers(ts) == {t \in ts : t.kind = "redirect"}

\* the pages a file can be: index.html is the login page, either the legacy page of
\* script.js or the home page of home-script.js
PagesAt(file) ==
  IF file = "home.html" THEN {"home"}
  ELSE IF file = "dashboard.html" THEN {"dashboard"} ELSE {"home", "users"}

\* the document is replaced: the calls, timers and alerts of the old page are gone and
\* every element is as the markup has it; local storage stays
Unload ==
  /\ inflight' = <<>>
  /\ joins' = [g \in JoinIds |-> IdleJoin]
  /\ timers' = {}
  /\ alerts' = {}
  /\ apiUrl' = NoApiUrl
  /\ welcomeText' = None
  /\ statsView' = [shown |-> FALSE, stats |-> NoStats, goalProgress |-> 0]
  /\ mealsView' = [shown |-> FALSE, meals |-> <<>>]
  /\ analysisModal' = "none"
  /\ analysisView' = [shown |-> FALSE, data |-> NoAnalysis]
  /\ macrosChart' = 0
  /\ caloriesChart' = 0
  /\ charts' = <<>>
  /\ addMealModal' = "none"
  /\ mealForm' = EmptyForm
  /\ foodSearch' = <<>>
  /\ searchTimeout' = 0
  /\ suggestions' = NoSuggestions
  /\ selectedFoodId' = <<>>
  /\ selectedFoodName' = <<>>
  /\ selectedFood' = NullFood
  /\ preview' = [display |-> "none", calories |-> <<>>, protein |-> <<>>, carbs |-> <<>>,
                fat |-> <<>>]
  /\ mealMessage' = NoMessage
  /\ profileModal' = "none"
  /\ profileForm' = EmptyProfile
  /\ profileMessage' = NoProfileMessage
  /\ calculatedGoals' = [display |-> "none", goals |-> NoGoals]
  /\ analyzeBtn' = [p \in Panels |-> [disabled |-> FALSE, html |-> "label",
                                     display |-> "shown"]]
  /\ refreshBtn' = [p \in Panels |-> "none"]
  /\ aiResults' = [p \in Panels |-> [display |-> "none", content |-> "empty"]]
  /\ authModal' = [display |-> "none", section |-> "none"]
  /\ registerForm' = EmptyRegister
  /\ loginForm' = EmptyLogin
  /\ registerMessage' = NoMessage
  /\ loginMessage' = NoMessage
  /\ usersBtn' = [text |-> "Load Users", disabled |-> FALSE]
  /\ usersList' = [kind |-> "empty", users |-> <<>>]
  /\ usersLoginMessage' = NoMessage
  /\ UNCHANGED <<storage, hostname, opsLeft>>

\* the script of page pg runs its top level; the dashboard reads the token and assigns
\* home.html when there is none
Start(pg) ==
  /\ page' = pg
  /\ configDefined' = (pg # "users")
  /\ token' = IF pg = "dashboard" THEN storage[JWT_TOKEN] ELSE None
  /\ loaded' = (pg = "users")
  /\ location' = IF pg = "home" \/ (pg = "dashboard" /\ storage[JWT_TOKEN] = None)
                 THEN "home.html"
                 ELSE IF pg = "dashboard" THEN "dashboard.html" ELSE "index.html"

\* the browser follows the href assigned to window.location
Navigate ==
  /\ NavigationPending
  /\ Unload
  /\ \E pg \in PagesAt(location) : Start(pg)

\* the home page and the dashboard opened with no token and with a stored token, which
\* the server accepts or answers 401 to; no user operation
InitRedirects ==
  \E sto \in {NoStorage, LoggedIn} :
    \/ InitHome(sto, "localhost", 0)
    \/ InitDashboard(sto, TRUE, 0)

NextRedirects ==
  \/ HomeDOMContentLoaded
  \/ \E t \in timers : RedirectFires(t)
  \/ Tick
  \/ DOMContentLoaded
  \/ \E i \in 1..MaxInflight, d \in StatsResults :
       \E out \in AnswersTo(i) : StatsResponse(i, out, d)
  \/ \E i \in 1..MaxInflight, d \in ProfileResults :
       \E out \in AnswersTo(i) : ProfileResponse(i, out, d)
  \/ \E i \in 1..MaxInflight, d \in MealLists :
       \E out \in AnswersTo(i) : MealsResponse(i, out, d)
  \/ Navigate

SpecRedirects == InitRedirects /\ [][NextRedirects]_vars

\* the event loop runs a handler that is ready, a due timer fires, a fetch settles and
\* an assigned href is followed
SpecRedirectsFair == SpecRedirects /\ WF_vars(NextRedirects)

\* the home page, once loaded, is about to leave for the dashboard exactly when a
\* token is stored
HomeRule ==
  page = "home" /\ loaded
    => ((NavigationPending \/ RedirectTimers(timers) # {}) <=> storage[JWT_TOKEN] # None)

\* the dashboard is about to leave exactly when no token is stored
DashboardRule ==
  page = "dashboard" => (NavigationPending <=> storage[TOKEN_KEY] = None)

\* no redirect is pending
Settled == ~NavigationPending /\ RedirectTimers(timers) = {}

====
